---- MODULE Spec2Model ----
(***************************************************************************)
(* The virtual-connection builder of the Hex engine (VCBuilder.cpp): the   *)
(* static and the incremental build, the fixed-point search with its two   *)
(* work queues, the AND rule, both OR rules and the merge/shrink pass.     *)
(*                                                                         *)
(* Cells are integers (HexPoint).  A bitset is a set of cells; iteration   *)
(* over a bitset is in ascending order.  A VCList is a sequence of VC      *)
(* records.  Sequential code that mutates the builder is written as        *)
(* operators that take the builder's mutable state as a record `s` and     *)
(* return the new record.                                                  *)
(***************************************************************************)
EXTENDS Integers, Sequences, FiniteSets, TLC

VARIABLES
    brd,        \* the position the builder works on: [w, h, col]
    m_groups,   \* the groups of brd: the captain of every cell
    m_color,    \* the colour of the VCSet
    param,      \* VCBuilderParam, plus the lists' soft limit
    lib,        \* pattern libraries loaded at construction: [cap, vc]
    m_capturedSet,
    con,        \* the VCSet: [FULL |-> [pair -> list], SEMI |-> [pair -> list]]
    m_nbs,
    fulls_queue,   \* FullVCQueue: [array, head]
    semis_queue,   \* SemiEndsQueue: [array, head, seen]
    m_log,         \* [on |-> BOOLEAN, recs |-> sequence of ChangeLog records]
    stats,         \* m_statsForColor[m_color]
    pc,            \* "idle", "search", "done", "reverted"
    winning_connection,
    asserts,       \* the assertions of the code that have failed so far
    hist,          \* history, see Init
    do_and         \* an operation applied on its own: what it is given and
                   \* what it offers, adds or removes, see InitAnd, InitOr,
                   \* InitMerge, InitHandbook and InitBook

vars == <<brd, m_groups, m_color, param, lib, m_capturedSet, con, m_nbs, fulls_queue, semis_queue,
          m_log, stats, pc, winning_connection, asserts, hist, do_and>>

----------------------------------------------------------------------------
(* Bounds of the model *)

\* widest and highest board of the specification Spec
MaxWidth == 2
MaxHeight == 2
\* most stones on the board when a behaviour starts
MaxStones == 1
\* most builds (static or incremental) in one behaviour
MaxBuilds == 3
\* most stones played before one incremental build
MaxAdded == 1
\* the soft limit of the lists in the runs that use a small one
SmallSoftLimit == 2
\* longest Semi list and largest max_ors the bounded OR rule is applied to on
\* its own
MaxSemis == 4
MaxOrsTried == 3

----------------------------------------------------------------------------
(* Cells, colours, board topology (Hex.hpp, ConstBoard) *)

INVALID_POINT == 0
NORTH == 1
EAST == 2
SOUTH == 3
WEST == 4
FIRST_CELL == 5

BLACK == "B"
WHITE == "W"
EMPTY == "E"

OtherColor(c) == IF c = BLACK THEN WHITE ELSE BLACK

colorEdge1(c) == IF c = BLACK THEN NORTH ELSE EAST
colorEdge2(c) == IF c = BLACK THEN SOUTH ELSE WEST

Edges == {NORTH, EAST, SOUTH, WEST}
isEdge(p) == p \in Edges

Interior(w, h) == FIRST_CELL .. (FIRST_CELL + w * h - 1)
EdgesAndInterior(w, h) == Edges \cup Interior(w, h)

Cell(w, c, r) == FIRST_CELL + r * w + c
ColOf(w, p) == (p - FIRST_CELL) % w
RowOf(w, p) == (p - FIRST_CELL) \div w

\* the six neighbours of a cell of the hexagonal grid, and the edges next to
\* the border rows and columns
Nbs(w, h, p) ==
    IF p = NORTH THEN {Cell(w, c, 0) : c \in 0..(w - 1)}
    ELSE IF p = SOUTH THEN {Cell(w, c, h - 1) : c \in 0..(w - 1)}
    ELSE IF p = WEST THEN {Cell(w, 0, r) : r \in 0..(h - 1)}
    ELSE IF p = EAST THEN {Cell(w, w - 1, r) : r \in 0..(h - 1)}
    ELSE LET c == ColOf(w, p)
             r == RowOf(w, p)
             D == {<<-1, 0>>, <<1, 0>>, <<0, -1>>, <<0, 1>>, <<1, -1>>, <<-1, 1>>}
         IN {Cell(w, c + d[1], r + d[2]) :
                d \in {e \in D : /\ c + e[1] \in 0..(w - 1)
                                 /\ r + e[2] \in 0..(h - 1)}}
            \cup (IF r = 0 THEN {NORTH} ELSE {})
            \cup (IF r = h - 1 THEN {SOUTH} ELSE {})
            \cup (IF c = 0 THEN {WEST} ELSE {})
            \cup (IF c = w - 1 THEN {EAST} ELSE {})

EdgeColor(p) == IF p \in {NORTH, SOUTH} THEN BLACK ELSE WHITE

\* a position: the colour of every interior cell; edges carry their colour
Position(w, h, stones) ==
    [w |-> w, h |-> h,
     col |-> [p \in EdgesAndInterior(w, h) |->
                 IF isEdge(p) THEN EdgeColor(p) ELSE stones[p]]]

Cells(b) == EdgesAndInterior(b.w, b.h)
GetColor(b, p) == b.col[p]
GetEmpty(b) == {p \in Cells(b) : b.col[p] = EMPTY}
Stones(b, colorset) == {p \in Cells(b) : b.col[p] \in colorset}

Min(S) == CHOOSE x \in S : \A y \in S : x <= y
Max(S) == CHOOSE x \in S : \A y \in S : y <= x

\* the cells of a bitset in ascending order (BitsetIterator)
RECURSIVE BitsetToSeq(_)
BitsetToSeq(S) ==
    IF S = {} THEN <<>> ELSE <<Min(S)>> \o BitsetToSeq(S \ {Min(S)})

----------------------------------------------------------------------------
(* Groups (Groups.hpp): connected same-colour stones; every empty cell is a *)
(* group of one.  The captain is the first cell of the group.               *)

RECURSIVE Flood(_, _)
Flood(b, G) ==
    LET c == b.col[CHOOSE p \in G : TRUE]
        G2 == G \cup {q \in Cells(b) : /\ b.col[q] = c
                                       /\ \E p \in G : q \in Nbs(b.w, b.h, p)}
    IN IF G2 = G THEN G ELSE Flood(b, G2)

Members(b, p) == IF b.col[p] = EMPTY THEN {p} ELSE Flood(b, {p})
CaptainOf(b, p) == Min(Members(b, p))
IsCaptain(b, p) == CaptainOf(b, p) = p
Captains(b, colorset) == {p \in Stones(b, colorset) : IsCaptain(b, p)}
GroupNbs(b, p) == UNION {Nbs(b.w, b.h, q) : q \in Members(b, p)} \ Members(b, p)

\* the groups of a position, as the map from a cell to its captain
GroupsOf(b) == [p \in Cells(b) |-> CaptainOf(b, p)]

----------------------------------------------------------------------------
(* VC (VC.hpp): endpoints are stored with x < y; a Full has no key.        *)

FULL == "FULL"
SEMI == "SEMI"

VC_RULE_BASE == "base"
VC_RULE_AND == "and"
VC_RULE_OR == "or"
VC_RULE_ALL == "all"

Pair(x, y) == IF x < y THEN <<x, y>> ELSE <<y, x>>
Pairs(b) == {pr \in Cells(b) \X Cells(b) : pr[1] < pr[2]}

VCFull(x, y, carrier, rule) ==
    [x |-> Pair(x, y)[1], y |-> Pair(x, y)[2], type |-> FULL,
     key |-> INVALID_POINT, carrier |-> carrier, rule |-> rule,
     processed |-> FALSE]

VCSemi(x, y, key, carrier, rule) ==
    [x |-> Pair(x, y)[1], y |-> Pair(x, y)[2], type |-> SEMI,
     key |-> key, carrier |-> carrier, rule |-> rule, processed |-> FALSE]

\* VC::AndVCs, the four overloads
AndVCsFull(x, y, v1, v2) ==
    VCFull(x, y, v1.carrier \cup v2.carrier, VC_RULE_AND)
AndVCsSemi(x, y, v1, v2, key) ==
    VCSemi(x, y, key, v1.carrier \cup v2.carrier \cup {key}, VC_RULE_AND)
AndVCsFullCap(x, y, v1, v2, capturedSet) ==
    VCFull(x, y, v1.carrier \cup v2.carrier \cup capturedSet, VC_RULE_AND)
AndVCsSemiCap(x, y, v1, v2, capturedSet, key) ==
    VCSemi(x, y, key, v1.carrier \cup v2.carrier \cup capturedSet \cup {key},
           VC_RULE_AND)

\* VC::ShrinkFull, VC::ShrinkSemi, VC::UpgradeSemi
ShrinkFull(vc, added, x, y) == VCFull(x, y, vc.carrier \ added, vc.rule)
ShrinkSemi(vc, added, x, y) ==
    VCSemi(x, y, vc.key, vc.carrier \ added, vc.rule)
UpgradeSemi(vc, added, x, y) == VCFull(x, y, vc.carrier \ added, vc.rule)

----------------------------------------------------------------------------
(* VCList (VCList.hpp): entries in ascending order of carrier size, then of *)
(* insertion; no entry's carrier contains another's.                        *)

ADD_FAILED == "ADD_FAILED"
ADDED_INSIDE_SOFT_LIMIT == "ADDED_INSIDE_SOFT_LIMIT"
ADDED_INSIDE_HARD_LIMIT == "ADDED_INSIDE_HARD_LIMIT"

Prefix(list, n) == SubSeq(list, 1, IF n < Len(list) THEN n ELSE Len(list))

IsSupersetOfAny(list, carrier) ==
    \E i \in 1..Len(list) : list[i].carrier \subseteq carrier

\* where a new entry of the given carrier goes: behind every entry that is
\* no larger
InsertPos(list, carrier) ==
    Cardinality({i \in 1..Len(list) :
                    Cardinality(list[i].carrier) <= Cardinality(carrier)})

SimpleAdd(list, vc) ==
    LET pos == InsertPos(list, vc.carrier)
    IN SubSeq(list, 1, pos) \o <<vc>> \o SubSeq(list, pos + 1, Len(list))

\* VCList::Add(vc): [list, res, removed]
ListAdd(list, vc, softlimit) ==
    IF IsSupersetOfAny(list, vc.carrier)
    THEN [list |-> list, res |-> ADD_FAILED, removed |-> <<>>]
    ELSE LET kept == SelectSeq(list, LAMBDA v : ~(vc.carrier \subseteq v.carrier))
             gone == SelectSeq(list, LAMBDA v : vc.carrier \subseteq v.carrier)
         IN [list |-> SimpleAdd(kept, vc),
             res |-> IF InsertPos(kept, vc.carrier) < softlimit
                     THEN ADDED_INSIDE_SOFT_LIMIT ELSE ADDED_INSIDE_HARD_LIMIT,
             removed |-> gone]

\* VCList::FindInList: the index of the entry equal to vc, or 0
FindInList(list, vc) ==
    LET hits == {i \in 1..Len(list) : /\ list[i].x = vc.x
                                      /\ list[i].y = vc.y
                                      /\ list[i].carrier = vc.carrier}
    IN IF hits = {} THEN 0 ELSE Min(hits)

RECURSIVE IntersectAll(_, _)
IntersectAll(list, universe) ==
    IF list = <<>> THEN universe
    ELSE list[1].carrier \cap IntersectAll(Tail(list), universe)

HardIntersection(list, universe) == IntersectAll(list, universe)
SoftIntersection(list, softlimit, universe) ==
    IntersectAll(Prefix(list, softlimit), universe)

RECURSIVE GetUnion(_)
GetUnion(list) ==
    IF list = <<>> THEN {} ELSE list[1].carrier \cup GetUnion(Tail(list))

\* VCList::GetGreedyUnion: an entry joins the union only if it shrinks the
\* running intersection
RECURSIVE GreedyUnion(_, _, _)
GreedyUnion(list, I, U) ==
    IF list = <<>> THEN U
    ELSE IF I \subseteq list[1].carrier
         THEN GreedyUnion(Tail(list), I, U)
         ELSE GreedyUnion(Tail(list), I \cap list[1].carrier,
                          U \cup list[1].carrier)
GetGreedyUnion(list, universe) == GreedyUnion(list, universe, {})

----------------------------------------------------------------------------
(* ChangeLog (ChangeLog.hpp) and the logged list operations.  `s` is the    *)
(* builder's mutable state [con, nbs, fq, sq, log, stats]; `e` is what a    *)
(* build reads only: [brd, grp, cap, color, param].                         *)

\* The statements of the source run in order.  An operator's arguments are
\* evaluated when first used, so a loop looks at the state it is entered
\* with before it goes on: the iterations are then computed one after the
\* other, as the source runs them.
Reached(s) == DOMAIN s = DOMAIN s

ADD == "ADD"
REMOVE == "REMOVE"
PROCESSED == "PROCESSED"

LogPush(s, kind, vc) ==
    IF s.log.on
    THEN [s EXCEPT !.log.recs = Append(@, [kind |-> kind, vc |-> vc])]
    ELSE s

RECURSIVE LogPushAll(_, _, _)
LogPushAll(s, kind, vcs) ==
    IF ~Reached(s) \/ vcs = <<>> THEN s
    ELSE LogPushAll(LogPush(s, kind, vcs[1]), kind, Tail(vcs))

Universe(e) == Cells(e.brd) \cup {INVALID_POINT}

GetList(s, type, x, y) == s.con[type][Pair(x, y)]
Exists(c, x, y, type) == c[type][Pair(x, y)] /= <<>>

\* VCList::Add(vc, log) on the list (type, x, y): [s, res]
AddToList(e, s, type, x, y, vc) ==
    LET r == ListAdd(GetList(s, type, x, y), vc, e.param.softlimit)
    IN IF r.res = ADD_FAILED THEN [s |-> s, res |-> ADD_FAILED]
       ELSE [s |-> LogPush(LogPushAll(
                       [s EXCEPT !.con[type][Pair(x, y)] = r.list],
                       REMOVE, r.removed), ADD, vc),
             res |-> r.res]

\* VCSet::Add(vc, log)
ConAdd(e, s, vc) == AddToList(e, s, vc.type, vc.x, vc.y, vc)

\* VCList::Add(other, log): every entry of `other`, in order, as a new entry
\* of this list
RECURSIVE AddListToList(_, _, _, _, _, _)
AddListToList(e, s, type, x, y, other) ==
    IF ~Reached(s) \/ other = <<>> THEN s
    ELSE LET v == [other[1] EXCEPT !.x = Pair(x, y)[1], !.y = Pair(x, y)[2],
                                   !.processed = FALSE]
         IN AddListToList(e, AddToList(e, s, type, x, y, v).s, type, x, y,
                          Tail(other))

\* VCList::RemoveAllContaining(bs, removed, log): [s, removed]
ListRemoveAllContaining(s, type, x, y, bs) ==
    LET list == GetList(s, type, x, y)
        gone == SelectSeq(list, LAMBDA v : v.carrier \cap bs /= {})
        kept == SelectSeq(list, LAMBDA v : v.carrier \cap bs = {})
    IN [s |-> LogPushAll([s EXCEPT !.con[type][Pair(x, y)] = kept],
                         REMOVE, gone),
        removed |-> gone]

\* VCList::RemoveSuperSetsOf(carrier, log)
ListRemoveSuperSetsOf(s, type, x, y, carrier) ==
    LET list == GetList(s, type, x, y)
        gone == SelectSeq(list, LAMBDA v : carrier \subseteq v.carrier)
        kept == SelectSeq(list, LAMBDA v : ~(carrier \subseteq v.carrier))
    IN LogPushAll([s EXCEPT !.con[type][Pair(x, y)] = kept], REMOVE, gone)

\* a variant that sets the flag without a record in the log
SetProcessedUnlogged(s, type, x, y, i) ==
    [s EXCEPT !.con[type][Pair(x, y)][i].processed = TRUE]

\* cur->SetProcessed(true); if (m_log) m_log->Push(PROCESSED, *cur)
SetProcessed(s, type, x, y, i) ==
    LET s1 == [s EXCEPT !.con[type][Pair(x, y)][i].processed = TRUE]
    IN LogPush(s1, PROCESSED, s1.con[type][Pair(x, y)][i])

----------------------------------------------------------------------------
(* The work queues *)

\* number of elements the queues' vectors are constructed with
InitialArraySize == 128

QueueEmpty(q) == q.head = Len(q.array)
QueueFront(q) == q.array[q.head + 1]

FullVCQueueClear(q) == [array |-> <<>>, head |-> 0]
FullVCQueuePop(q) == [q EXCEPT !.head = @ + 1]
FullVCQueuePush(q, vc) == [q EXCEPT !.array = Append(@, vc)]

SemiEndsQueueClear(q) == [array |-> <<>>, head |-> 0, seen |-> {}]

SemiEndsQueuePop(q) ==
    [q EXCEPT !.seen = @ \ {QueueFront(q)}, !.head = @ + 1]

SemiEndsQueuePush(q, p) ==
    LET a == Pair(p[1], p[2])[1]
        b == Pair(p[1], p[2])[2]
    IN IF <<a, b>> \notin q.seen
       THEN [q EXCEPT !.seen = @ \cup {<<a, a>>},
                      !.array = Append(@, <<a, b>>)]
       ELSE q

----------------------------------------------------------------------------
(* Adding connections *)

Bump(s, counter) == [s EXCEPT !.stats[counter] = @ + 1]

\* a variant of PushFull that enters the pair in nbs in one direction only
PushFullOneWay(e, s, vc) ==
    LET x == e.grp[vc.x]
        y == e.grp[vc.y]
    IN [s EXCEPT !.fq = FullVCQueuePush(@, vc),
                 !.nbs = [@ EXCEPT ![x] = @ \cup {y}]]

PushFull(e, s, vc) ==
    LET x == e.grp[vc.x]
        y == e.grp[vc.y]
    IN [s EXCEPT !.fq = FullVCQueuePush(@, vc),
                 !.nbs = [@ EXCEPT ![x] = @ \cup {y}, ![y] = @ \cup {x}]]

RECURSIVE PushFullAll(_, _, _)
PushFullAll(e, s, vcs) ==
    IF ~Reached(s) \/ vcs = <<>> THEN s ELSE PushFullAll(e, PushFull(e, s, vcs[1]), Tail(vcs))

\* a variant of AddNewFull that forgets to queue the new Full
AddNewFullUnqueued(e, s, vc) ==
    LET r == ConAdd(e, s, vc)
    IN IF r.res /= ADD_FAILED
       THEN [s |-> ListRemoveSuperSetsOf(r.s, SEMI, vc.x, vc.y, vc.carrier),
             ok |-> TRUE]
       ELSE [s |-> s, ok |-> FALSE]

\* VCBuilder::AddNewFull: [s, ok]
AddNewFull(e, s, vc) ==
    LET r == ConAdd(e, s, vc)
    IN IF r.res /= ADD_FAILED
       THEN [s |-> PushFull(e, ListRemoveSuperSetsOf(r.s, SEMI, vc.x, vc.y,
                                                     vc.carrier), vc),
             ok |-> TRUE]
       ELSE [s |-> s, ok |-> FALSE]

\* a variant of AddNewSemi that does not queue the endpoints
AddNewSemiUnqueued(e, s, vc) ==
    IF ~IsSupersetOfAny(GetList(s, FULL, vc.x, vc.y), vc.carrier)
    THEN LET r == AddToList(e, s, SEMI, vc.x, vc.y, vc)
         IN IF r.res /= ADD_FAILED
            THEN [s |-> r.s, ok |-> TRUE]
            ELSE [s |-> s, ok |-> FALSE]
    ELSE [s |-> s, ok |-> FALSE]

\* [s, ok]
AddNewSemi(e, s, vc) ==
    IF ~IsSupersetOfAny(GetList(s, FULL, vc.x, vc.y), vc.carrier)
    THEN LET r == AddToList(e, s, SEMI, vc.x, vc.y, vc)
         IN IF r.res /= ADD_FAILED
            THEN [s |-> [r.s EXCEPT !.sq = SemiEndsQueuePush(@, <<vc.x, vc.y>>)],
                  ok |-> TRUE]
            ELSE [s |-> s, ok |-> FALSE]
    ELSE [s |-> s, ok |-> FALSE]

\* an attempt counted in `attempts`, a success in `successes`
TryFull(e, s, vc, attempts, successes) ==
    LET r == AddNewFull(e, Bump(s, attempts), vc)
    IN IF r.ok THEN Bump(r.s, successes) ELSE r.s

TrySemi(e, s, vc, attempts, successes) ==
    LET r == AddNewSemi(e, Bump(s, attempts), vc)
    IN IF r.ok THEN Bump(r.s, successes) ELSE r.s

----------------------------------------------------------------------------
(* The AND rule *)

CREATE_FULL == "CREATE_FULL"
CREATE_SEMI == "CREATE_SEMI"

\* a variant of the choice of the rule that ignores the endpoint's colour
AndRuleOfFull(e, p) == CREATE_FULL

\* the rule AndClosure chooses for the endpoint it connects through
AndRuleOf(e, p) ==
    IF GetColor(e.brd, p) = EMPTY THEN CREATE_SEMI ELSE CREATE_FULL

\* a variant of DoAnd's loop body that does not widen the carrier
AndOffersUnwidened(from, over, to, rule, vc, capturedSet, a) ==
    LET intersection == a.carrier \cap vc.carrier
        single == IF rule = CREATE_FULL /\ Cardinality(intersection) = 1
                  THEN <<AndVCsSemi(from, to, a, vc, Min(intersection))>>
                  ELSE <<>>
    IN IF ~a.processed THEN <<>>
       ELSE IF to \in a.carrier THEN <<>>
       ELSE IF intersection = {} \/ intersection \subseteq capturedSet
       THEN IF rule = CREATE_FULL
            THEN single \o <<AndVCsFull(from, to, a, vc)>>
            ELSE single \o <<AndVCsSemi(from, to, a, vc, over)>>
       ELSE IF rule = CREATE_FULL
               /\ Cardinality(intersection \ capturedSet) = 1
       THEN single \o <<AndVCsSemiCap(from, to, a, vc, capturedSet,
                                      Min(intersection \ capturedSet))>>
       ELSE single

\* a variant of DoAnd's loop body whose cases exclude each other
AndOffersExclusive(from, over, to, rule, vc, capturedSet, a) ==
    LET intersection == a.carrier \cap vc.carrier
    IN IF ~a.processed THEN <<>>
       ELSE IF to \in a.carrier THEN <<>>
       ELSE IF intersection = {}
       THEN IF rule = CREATE_FULL
            THEN <<AndVCsFull(from, to, a, vc)>>
            ELSE <<AndVCsSemi(from, to, a, vc, over)>>
       ELSE IF intersection \subseteq capturedSet
       THEN IF rule = CREATE_FULL
            THEN <<AndVCsFullCap(from, to, a, vc, capturedSet)>>
            ELSE <<AndVCsSemiCap(from, to, a, vc, capturedSet, over)>>
       ELSE IF rule = CREATE_FULL /\ Cardinality(intersection) = 1
       THEN <<AndVCsSemi(from, to, a, vc, Min(intersection))>>
       ELSE <<>>

\* the connections the body of DoAnd's loop offers for the entry a of the old
\* list, in the order of the calls of AddNewFull and AddNewSemi
AndOffers(from, over, to, rule, vc, capturedSet, a) ==
    LET intersection == a.carrier \cap vc.carrier
        single == IF rule = CREATE_FULL /\ Cardinality(intersection) = 1
                  THEN <<AndVCsSemi(from, to, a, vc, Min(intersection))>>
                  ELSE <<>>
    IN IF ~a.processed THEN <<>>
       ELSE IF to \in a.carrier THEN <<>>
       ELSE IF intersection = {}
       THEN IF rule = CREATE_FULL
            THEN <<AndVCsFull(from, to, a, vc)>>
            ELSE <<AndVCsSemi(from, to, a, vc, over)>>
       ELSE IF intersection \subseteq capturedSet
       THEN IF rule = CREATE_FULL
            THEN single \o <<AndVCsFullCap(from, to, a, vc, capturedSet)>>
            ELSE single \o <<AndVCsSemiCap(from, to, a, vc, capturedSet,
                                           over)>>
       ELSE IF rule = CREATE_FULL
               /\ Cardinality(intersection \ capturedSet) = 1
       THEN single \o <<AndVCsSemiCap(from, to, a, vc, capturedSet,
                                      Min(intersection \ capturedSet))>>
       ELSE single

\* the offers handed to AddNewFull and AddNewSemi, with DoAnd's counters
RECURSIVE OfferAll(_, _, _)
OfferAll(e, s, vcs) ==
    IF ~Reached(s) \/ vcs = <<>> THEN s
    ELSE OfferAll(e,
            IF vcs[1].type = FULL
            THEN TryFull(e, s, vcs[1], "and_full_attempts",
                         "and_full_successes")
            ELSE TrySemi(e, s, vcs[1], "and_semi_attempts",
                         "and_semi_successes"),
            Tail(vcs))

\* the body of DoAnd's loop for the entry a of the old list
DoAndEntry(e, s, from, over, to, rule, vc, capturedSet, a) ==
    OfferAll(e, s, AndOffers(from, over, to, rule, vc, capturedSet, a))

RECURSIVE DoAndLoop(_, _, _, _, _, _, _, _, _)
DoAndLoop(e, s, from, over, to, rule, vc, capturedSet, old) ==
    IF ~Reached(s) \/ old = <<>> THEN s
    ELSE DoAndLoop(e, DoAndEntry(e, s, from, over, to, rule, vc, capturedSet,
                                 old[1]),
                   from, over, to, rule, vc, capturedSet, Tail(old))

\* a variant of DoAnd that goes through the whole list
DoAndWholeList(e, s, from, over, to, rule, vc, capturedSet) ==
    DoAndLoop(e, s, from, over, to, rule, vc, capturedSet,
              GetList(s, FULL, from, over))

DoAnd(e, s, from, over, to, rule, vc, capturedSet) ==
    DoAndLoop(e, s, from, over, to, rule, vc, capturedSet,
              Prefix(GetList(s, FULL, from, over), e.param.softlimit))

\* the body of AndClosure's inner loop: neighbour z of endpoint endp[i]
AndClosureNb(e, s, vc, endp, i, z) ==
    LET j == 3 - i
        capturedSet == e.cap[endp[1]] \cup e.cap[endp[2]] \cup e.cap[z]
        fulls == GetList(s, FULL, z, endp[i])
        rule == AndRuleOf(e, endp[i])
    IN IF z = endp[1] \/ z = endp[2] THEN s
       ELSE IF z \in vc.carrier THEN s
       ELSE IF (SoftIntersection(fulls, e.param.softlimit, Universe(e))
                \cap vc.carrier) \ capturedSet /= {} THEN s
       ELSE DoAnd(e, s, z, endp[i], endp[j], rule, vc, capturedSet)

RECURSIVE AndClosureNbs(_, _, _, _, _, _)
AndClosureNbs(e, s, vc, endp, i, zs) ==
    IF ~Reached(s) \/ zs = <<>> THEN s
    ELSE AndClosureNbs(e, AndClosureNb(e, s, vc, endp, i, zs[1]), vc, endp,
                       i, Tail(zs))

\* a variant of the closure that chains over both endpoints whatever
\* and_over_edge says
AndClosureEndAnyEnd(e, s, vc, endp, i) ==
    AndClosureNbs(e, s, vc, endp, i, BitsetToSeq(s.nbs[endp[i]]))

AndClosureEnd(e, s, vc, endp, i) ==
    IF e.param.and_over_edge \/ ~isEdge(endp[i])
    THEN AndClosureNbs(e, s, vc, endp, i, BitsetToSeq(s.nbs[endp[i]]))
    ELSE s

AndClosure(e, s, vc) ==
    LET endp == <<e.grp[vc.x], e.grp[vc.y]>>
    IN AndClosureEnd(e, AndClosureEnd(e, s, vc, endp, 1), vc, endp, 2)

----------------------------------------------------------------------------
(* The bounded OR rule (VCBuilder::OrRule::operator()).  `o` is the state   *)
(* of its loop: [s, added, count, d, index, ors, ands].                     *)

\* m_tail[i]: the intersection of the carriers of semi[i..N]
RECURSIVE TailIntersections(_)
TailIntersections(semi) ==
    IF Len(semi) = 1 THEN <<semi[1].carrier>>
    ELSE LET rest == TailIntersections(Tail(semi))
         IN <<semi[1].carrier \cap rest[1]>> \o rest

\* a variant of the bounded rule's Add that always widens the carrier by the
\* captured sets of both endpoints
OrRuleAddCaptured(e, o, x, y, carrier) ==
    LET v == VCFull(x, y, carrier \cup e.cap[x] \cup e.cap[y], VC_RULE_OR)
        r == AddToList(e, Bump(o.s, "or_attempts"), FULL, x, y, v)
    IN IF r.res /= ADD_FAILED
       THEN [o EXCEPT !.s = Bump(r.s, "or_successes"),
                      !.count = @ + 1,
                      !.added = Append(@, v),
                      !.index[o.d] = @ + 1]
       ELSE [o EXCEPT !.s = r.s, !.index[o.d] = @ + 1]

\* full_list->Add(v, log) of a Full made by the OR rule
OrRuleAdd(e, o, x, y, carrier) ==
    LET v == VCFull(x, y, carrier, VC_RULE_OR)
        r == AddToList(e, Bump(o.s, "or_attempts"), FULL, x, y, v)
    IN IF r.res /= ADD_FAILED
       THEN [o EXCEPT !.s = Bump(r.s, "or_successes"),
                      !.count = @ + 1,
                      !.added = Append(@, v),
                      !.index[o.d] = @ + 1]
       ELSE [o EXCEPT !.s = r.s, !.index[o.d] = @ + 1]

\* one iteration of the loop of the rule; d = 0 once the loop is left
OrRuleStep(e, o, x, y, semi, tail, maxOrs, capturedSet) ==
    LET N == Len(semi)
        d == o.d
        i0 == o.index[d]
        i == IF i0 < N /\ (o.ands[d - 1] \cap tail[i0 + 1]) \ capturedSet /= {}
             THEN N ELSE i0
        andsd == o.ands[d - 1] \cap semi[i + 1].carrier
        orsd == o.ors[d - 1] \cup semi[i + 1].carrier
        o1 == [o EXCEPT !.ands[d] = andsd, !.ors[d] = orsd]
    IN IF i = N
       THEN IF d = 1 THEN [o EXCEPT !.d = 0]
            ELSE [o EXCEPT !.d = d - 1, !.index[d - 1] = @ + 1]
       ELSE IF andsd = {}
       THEN OrRuleAdd(e, o1, x, y, orsd)
       ELSE IF andsd \subseteq capturedSet
       THEN OrRuleAdd(e, o1, x, y,
                      orsd
                      \cup (IF andsd \cap e.cap[x] /= {} THEN e.cap[x] ELSE {})
                      \cup (IF andsd \cap e.cap[y] /= {} THEN e.cap[y] ELSE {}))
       ELSE IF andsd = o.ands[d - 1]
       THEN [o1 EXCEPT !.index[d] = @ + 1]
       ELSE IF d < maxOrs
       THEN [o1 EXCEPT !.d = d + 1, !.index[d + 1] = i + 1]
       ELSE [o1 EXCEPT !.index[d] = @ + 1]

\* the loop of the rule: at most n iterations from o, the first half of
\* them before the second
RECURSIVE OrRuleLoop(_, _, _, _, _, _, _, _, _)
OrRuleLoop(e, o, x, y, semi, tail, maxOrs, capturedSet, n) ==
    IF o.d = 0 THEN o
    ELSE IF n <= 1
    THEN OrRuleStep(e, o, x, y, semi, tail, maxOrs, capturedSet)
    ELSE LET half == OrRuleLoop(e, o, x, y, semi, tail, maxOrs, capturedSet,
                                n \div 2)
         IN OrRuleLoop(e, half, x, y, semi, tail, maxOrs, capturedSet,
                       n - n \div 2)

\* [s, added, count]: the OR rule seeded with the semi vc of the list (x, y)
OrRule(e, s, added, vc, x, y, maxOrs) ==
    LET semi_list == GetList(s, SEMI, x, y)
        m_semi == SelectSeq(Prefix(semi_list, e.param.softlimit),
                            LAMBDA v : v.processed)
        o0 == [s |-> s, added |-> added, count |-> 0, d |-> 1,
               index |-> [k \in 1..16 |-> 0],
               ors |-> [k \in 0..15 |-> IF k = 0 THEN vc.carrier ELSE {}],
               ands |-> [k \in 0..15 |-> IF k = 0 THEN vc.carrier ELSE {}]]
    IN IF semi_list = <<>> \/ m_semi = <<>>
       THEN [s |-> s, added |-> added, count |-> 0]
       ELSE LET \* the loop visits a set of semis once going down and once
            \* coming back
            o == OrRuleLoop(e, o0, x, y, m_semi,
                            TailIntersections(m_semi), maxOrs - 1,
                            e.cap[x] \cup e.cap[y], 2 ^ (Len(m_semi) + 2))
            IN IF o.d /= 0
               THEN [s |-> [o.s EXCEPT !.asserts = @ \cup {"OrRule: loop left"}],
                     added |-> o.added, count |-> o.count]
               ELSE [s |-> o.s, added |-> o.added, count |-> o.count]

----------------------------------------------------------------------------
(* The enhanced OR rule (VCOrCombiner).  `c` is the combiner's state:       *)
(* [s, added, mem] with mem the vector set_mem; the element the code calls  *)
(* set_mem[k] is mem[k + 1].                                                *)

Fail(s, what) == [s EXCEPT !.asserts = @ \cup {what}]

RECURSIVE Intersect(_, _, _, _)
Intersect(mem, start, count, universe) ==
    IF count = 0 THEN universe
    ELSE mem[start + 1] \cap Intersect(mem, start + 1, count - 1, universe)

\* the selection loop of VCOrCombiner::Add: [U, ok]
RECURSIVE CombinerAddLoop(_, _, _, _, _, _, _)
CombinerAddLoop(mem, start, count, capturedSet, i, I, U) ==
    IF i >= count THEN [U |-> U, ok |-> FALSE]
    ELSE LET next == mem[start + i + 1]
         IN IF I \subseteq next
            THEN CombinerAddLoop(mem, start, count, capturedSet, i + 1, I, U)
            ELSE IF (I \cap next) \subseteq capturedSet
                 THEN [U |-> U \cup next, ok |-> TRUE]
                 ELSE CombinerAddLoop(mem, start, count, capturedSet, i + 1,
                                      I \cap next, U \cup next)

\* VCOrCombiner::Add: [c, U]
CombinerAdd(e, c, x, y, start, count, capturedSet) ==
    LET sel == CombinerAddLoop(c.mem, start, count, capturedSet, 0,
                               Universe(e), capturedSet)
        v == VCFull(x, y, sel.U, VC_RULE_OR)
        s1 == Bump(Bump(IF sel.ok THEN c.s
                        ELSE Fail(c.s, "Add: i < count"), "or_attempts"),
                   "or_attempts")
        r == AddToList(e, s1, FULL, x, y, v)
        s2 == IF r.res = ADD_FAILED
              THEN Fail(r.s, "Enhanced OR should always succeed!") ELSE r.s
    IN [c |-> [c EXCEPT !.s = Bump(s2, "or_successes"),
                        !.added = Append(@, v)],
        U |-> sel.U]

\* VCOrCombiner::Filter: [mem, res]
RECURSIVE Filter(_, _, _, _)
Filter(mem, start, count, a) ==
    IF count = 0 THEN [mem |-> mem, res |-> 0]
    ELSE LET sset == mem[start + 1]
             r == Filter(IF a \notin sset THEN Append(mem, sset) ELSE mem,
                         start + 1, count - 1, a)
         IN [mem |-> r.mem, res |-> r.res + (IF a \notin sset THEN 1 ELSE 0)]

\* the set of least size among set_mem[filtered + i] - forbidden, the first
\* one on a tie
RECURSIVE MinAllowed(_, _, _, _, _)
MinAllowed(mem, filtered, filtered_count, forbidden, i) ==
    LET A == mem[filtered + i + 1] \ forbidden
    IN IF i = filtered_count - 1 THEN A
       ELSE LET rest == MinAllowed(mem, filtered, filtered_count, forbidden,
                                   i + 1)
            IN IF Cardinality(A) <= Cardinality(rest) THEN A ELSE rest

\* copies set_mem[new_conn + i] to set_mem[new_semis + i] and resizes
MoveNewConn(mem, new_semis, new_conn, new_conn_count) ==
    SubSeq(mem, 1, new_semis)
    \o [i \in 1..new_conn_count |-> mem[new_conn + i]]

RECURSIVE Search(_, _, _, _, _, _, _, _, _, _, _)
RECURSIVE SearchLoop(_, _, _, _, _, _, _, _, _, _, _, _, _)

\* the while loop of Search: [c, ret]
SearchLoop(e, c, x, y, forbidden, captureX, captureY, new_semis, new_semis_count, old_semis_count, filtered_count, new_conn, new_conn_count) ==
    LET old_semis == new_semis + new_semis_count
        filtered == old_semis + old_semis_count
        allowed == MinAllowed(c.mem, filtered, filtered_count, forbidden, 0)
        a == Min(allowed)
        f1 == Filter(c.mem, new_semis, new_semis_count, a)
        f2 == Filter(f1.mem, old_semis, old_semis_count, a)
        f3 == Filter(f2.mem, filtered, filtered_count, a)
        rec == Search(e, [c EXCEPT !.mem = f3.mem], x, y,
                      forbidden \cup {a},
                      captureX /\ a \notin e.cap[x],
                      captureY /\ a \notin e.cap[y],
                      filtered + filtered_count, f1.res, f2.res, f3.res)
    IN IF allowed = {}
       THEN [c |-> [c EXCEPT !.mem = MoveNewConn(@, new_semis, new_conn,
                                                 new_conn_count)],
             ret |-> new_conn_count]
       ELSE SearchLoop(e, rec.c, x, y, forbidden \cup {a}, captureX, captureY,
                       new_semis, new_semis_count, old_semis_count,
                       filtered_count + rec.ret, new_conn,
                       new_conn_count + rec.ret)

\* VCOrCombiner::Search: [c, ret]
Search(e, c, x, y, forbidden, captureX, captureY, new_semis, new_semis_count, old_semis_count, filtered_count) ==
    LET old_semis == new_semis + new_semis_count
        I_new == Intersect(c.mem, new_semis, new_semis_count, Universe(e))
        I_old == Intersect(c.mem, old_semis, old_semis_count, Universe(e))
        I == I_new \cap I_old
        capturedSet == (IF captureX THEN e.cap[x] ELSE {})
                       \cup (IF captureY THEN e.cap[y] ELSE {})
        filtered == old_semis + old_semis_count
        new_conn == filtered + filtered_count
        minCapturedSet == (IF I \cap e.cap[x] /= {} THEN e.cap[x] ELSE {})
                          \cup (IF I \cap e.cap[y] /= {} THEN e.cap[y] ELSE {})
        c0 == IF new_semis_count > 0 THEN c
              ELSE [c EXCEPT !.s = Fail(@, "new_semis_count > 0")]
        ad == CombinerAdd(e, c0, x, y, new_semis,
                          new_semis_count + old_semis_count, minCapturedSet)
    IN IF ~(I \subseteq capturedSet)
       THEN [c |-> [c0 EXCEPT !.mem = SubSeq(@, 1, new_semis)], ret |-> 0]
       ELSE IF filtered_count = 0
       THEN SearchLoop(e, [ad.c EXCEPT !.mem = Append(@, ad.U)], x, y,
                       forbidden \cup I_new, captureX, captureY, new_semis,
                       new_semis_count, old_semis_count, 1, new_conn, 1)
       ELSE SearchLoop(e, c0, x, y, forbidden \cup I_new, captureX, captureY,
                       new_semis, new_semis_count, old_semis_count,
                       filtered_count, new_conn, 0)

Carriers(list) == [i \in 1..Len(list) |-> list[i].carrier]

\* VCBuilder::DoOr, the constructor of VCOrCombiner: [s, added, found]
DoOr(e, s, added, x, y) ==
    LET semi_list == GetList(s, SEMI, x, y)
        full_list == GetList(s, FULL, x, y)
        new == Carriers(SelectSeq(semi_list, LAMBDA v : ~v.processed))
        old == Carriers(SelectSeq(semi_list, LAMBDA v : v.processed))
        r == Search(e, [s |-> s, added |-> added,
                        mem |-> new \o old \o Carriers(full_list)],
                    x, y, {}, TRUE, TRUE, 0, Len(new), Len(old),
                    Len(full_list))
    IN IF new = <<>> THEN [s |-> s, added |-> added, found |-> FALSE]
       ELSE [s |-> r.c.s, added |-> r.c.added, found |-> r.ret > 0]

----------------------------------------------------------------------------
(* ProcessSemis, ProcessFulls *)

\* marks every unprocessed entry among the first n of the Semi list (x, y)
RECURSIVE MarkSemis(_, _, _, _, _)
MarkSemis(s, x, y, i, n) ==
    IF i > n \/ i > Len(GetList(s, SEMI, x, y)) THEN s
    ELSE MarkSemis(IF GetList(s, SEMI, x, y)[i].processed THEN s
                   ELSE SetProcessed(s, SEMI, x, y, i),
                   x, y, i + 1, n)

\* the loop of the bounded branch over the soft prefix: [s, added]
RECURSIVE BoundedOrs(_, _, _, _, _)
BoundedOrs(e, sa, x, y, i) ==
    LET semis == GetList(sa.s, SEMI, x, y)
        Marked(r) ==
            [s |-> SetProcessed(IF r.count /= 0 THEN Bump(r.s, "goodOrs")
                                ELSE r.s, SEMI, x, y, i),
             added |-> r.added]
    IN IF i > Len(semis) \/ i > e.param.softlimit THEN sa
       ELSE IF semis[i].processed THEN BoundedOrs(e, sa, x, y, i + 1)
       ELSE BoundedOrs(e, Marked(OrRule(e, Bump(sa.s, "doOrs"), sa.added,
                                        semis[i], x, y, e.param.max_ors)),
                       x, y, i + 1)

\* a variant of the union of the entire list that leaves the captured sets
\* out of the carrier
UnionAllUncaptured(e, sa, xc, yc) ==
    LET semis == GetList(sa.s, SEMI, xc, yc)
        carrier == IF e.param.use_greedy_union
                   THEN GetGreedyUnion(semis, Universe(e))
                   ELSE GetUnion(semis)
        v == VCFull(xc, yc, carrier, VC_RULE_ALL)
    IN [s |-> AddToList(e, sa.s, FULL, xc, yc, v).s,
        added |-> Append(sa.added, v)]

\* the Full made by unioning the entire Semi list: [s, added]
UnionAll(e, sa, xc, yc) ==
    LET semis == GetList(sa.s, SEMI, xc, yc)
        carrier == IF e.param.use_greedy_union
                   THEN GetGreedyUnion(semis, Universe(e))
                   ELSE GetUnion(semis)
        v == VCFull(xc, yc, carrier \cup e.cap[xc] \cup e.cap[yc], VC_RULE_ALL)
    IN [s |-> AddToList(e, sa.s, FULL, xc, yc, v).s,
        added |-> Append(sa.added, v)]

\* a variant of ProcessSemis without the test of the hard intersection
ProcessSemisUntested(e, s, xc, yc) ==
    LET semis == GetList(s, SEMI, xc, yc)
        PushAdded(sa) == PushFullAll(e, sa.s, sa.added)
        Enhanced(enh) ==
            PushAdded([s |-> MarkSemis(IF enh.found
                                       THEN Bump(enh.s, "goodOrs") ELSE enh.s,
                                       xc, yc, 1, Len(semis)),
                       added |-> enh.added])
        Bounded(bnd) ==
            PushAdded(IF GetList(bnd.s, FULL, xc, yc) = <<>>
                      THEN UnionAll(e, bnd, xc, yc) ELSE bnd)
    IN IF e.param.max_ors >= 16
       THEN Enhanced(DoOr(e, Bump(s, "doOrs"), <<>>, xc, yc))
       ELSE Bounded(BoundedOrs(e, [s |-> s, added |-> <<>>], xc, yc, 1))

ProcessSemis(e, s, xc, yc) ==
    LET semis == GetList(s, SEMI, xc, yc)
        capturedSet == e.cap[xc] \cup e.cap[yc]
        PushAdded(sa) == PushFullAll(e, sa.s, sa.added)
        \* after DoOr: every Semi of the list is marked processed
        Enhanced(enh) ==
            PushAdded([s |-> MarkSemis(IF enh.found
                                       THEN Bump(enh.s, "goodOrs") ELSE enh.s,
                                       xc, yc, 1, Len(semis)),
                       added |-> enh.added])
        \* after the bounded loop: the union of the list if no Full exists
        Bounded(bnd) ==
            PushAdded(IF GetList(bnd.s, FULL, xc, yc) = <<>>
                      THEN UnionAll(e, bnd, xc, yc) ELSE bnd)
    IN IF HardIntersection(semis, Universe(e)) \ capturedSet /= {} THEN s
       ELSE IF e.param.max_ors >= 16
       THEN Enhanced(DoOr(e, Bump(s, "doOrs"), <<>>, xc, yc))
       ELSE Bounded(BoundedOrs(e, [s |-> s, added |-> <<>>], xc, yc, 1))

\* a variant of ProcessFulls that does not look at the processed flag
ProcessFullsAgain(e, s, vc) ==
    LET cur == FindInList(GetList(s, FULL, vc.x, vc.y), vc)
        Closed(s1) ==
            LET cur1 == FindInList(GetList(s1, FULL, vc.x, vc.y), vc)
            IN IF cur1 = 0 THEN Fail(s1, "*cur == vc")
               ELSE SetProcessed(s1, FULL, vc.x, vc.y, cur1)
    IN IF cur = 0 THEN s
       ELSE Closed(AndClosure(e, s, GetList(s, FULL, vc.x, vc.y)[cur]))

ProcessFulls(e, s, vc) ==
    LET cur == FindInList(GetList(s, FULL, vc.x, vc.y), vc)
        Closed(s1) ==
            LET cur1 == FindInList(GetList(s1, FULL, vc.x, vc.y), vc)
            IN IF cur1 = 0 THEN Fail(s1, "*cur == vc")
               ELSE SetProcessed(s1, FULL, vc.x, vc.y, cur1)
    IN IF cur = 0 THEN s
       ELSE IF GetList(s, FULL, vc.x, vc.y)[cur].processed THEN s
       ELSE Closed(AndClosure(e, s, GetList(s, FULL, vc.x, vc.y)[cur]))

----------------------------------------------------------------------------
(* The static build's seeding *)

RECURSIVE AddBaseVCsTo(_, _, _, _)
AddBaseVCsTo(e, s, xc, ys) ==
    IF ~Reached(s) \/ ys = <<>> THEN s
    ELSE LET vc == VCFull(xc, ys[1], {}, VC_RULE_BASE)
             r == ConAdd(e, Bump(s, "base_attempts"), vc)
         IN AddBaseVCsTo(e,
                IF r.res /= ADD_FAILED
                THEN PushFull(e, Bump(r.s, "base_successes"), vc) ELSE r.s,
                xc, Tail(ys))

RECURSIVE AddBaseVCsLoop(_, _, _)
AddBaseVCsLoop(e, s, xs) ==
    IF ~Reached(s) \/ xs = <<>> THEN s
    ELSE AddBaseVCsLoop(e,
            AddBaseVCsTo(e, s, xs[1],
                BitsetToSeq(GroupNbs(e.brd, xs[1]) \cap GetEmpty(e.brd))),
            Tail(xs))

\* a variant of the seeding that skips the edges as first endpoint
AddBaseVCsNoEdges(e, s) ==
    AddBaseVCsLoop(e, s, BitsetToSeq(Captains(e.brd, {e.color, EMPTY}) \ Edges))

AddBaseVCs(e, s) ==
    AddBaseVCsLoop(e, s, BitsetToSeq(Captains(e.brd, {e.color, EMPTY})))

\* VCPattern::Matches
Matches(pat, color, b) ==
    /\ pat.not_opponent \cap Stones(b, {OtherColor(color)}) \cap Interior(b.w, b.h) = {}
    /\ pat.must_have \subseteq Stones(b, {color}) \cap Interior(b.w, b.h)

RECURSIVE AddPatternVCsLoop(_, _, _)
AddPatternVCsLoop(e, s, pats) ==
    IF ~Reached(s) \/ pats = <<>> THEN s
    ELSE LET pat == pats[1]
             carrier == (pat.not_opponent \ Stones(e.brd, {e.color}))
                        \ {pat.e0, pat.e1}
             vc == VCFull(pat.e0, pat.e1, carrier, VC_RULE_BASE)
             r == ConAdd(e, Bump(s, "pattern_attempts"), vc)
         IN IF ~e.param.use_non_edge_patterns /\ ~isEdge(pat.e0)
               /\ ~isEdge(pat.e1)
            THEN AddPatternVCsLoop(e, s, Tail(pats))
            ELSE IF ~Matches(pat, e.color, e.brd)
            THEN AddPatternVCsLoop(e, s, Tail(pats))
            ELSE AddPatternVCsLoop(e,
                    IF r.res /= ADD_FAILED
                    THEN PushFull(e, Bump(r.s, "pattern_successes"), vc)
                    ELSE r.s,
                    Tail(pats))

AddPatternVCs(e, s, vclib) == AddPatternVCsLoop(e, s, vclib[e.color])

----------------------------------------------------------------------------
(* The merge of the incremental build.  `eo` is the old position's          *)
(* environment, `e` the new one's.                                          *)

\* the pairs <<xs[i], xs[j]>> with j < i, in the order of the nested loops
RECURSIVE LoopPairs(_, _)
LoopPairs(xs, i) ==
    IF i > Len(xs) THEN <<>>
    ELSE [j \in 1..(i - 1) |-> <<xs[i], xs[j]>>] \o LoopPairs(xs, i + 1)

RECURSIVE RemoveAllContainingLoop(_, _, _)
RemoveAllContainingLoop(s, prs, bs) ==
    IF ~Reached(s) \/ prs = <<>> THEN s
    ELSE LET xc == prs[1][1]
             yc == prs[1][2]
             r0 == ListRemoveAllContaining(s, FULL, xc, yc, bs)
             s0 == [r0.s EXCEPT !.stats.killed0 = @ + Len(r0.removed)]
             r1 == ListRemoveAllContaining(s0, SEMI, xc, yc, bs)
             s1 == [r1.s EXCEPT !.stats.killed1 = @ + Len(r1.removed)]
         IN RemoveAllContainingLoop(s1, Tail(prs), bs)

\* a variant of the merge's first step that kills nothing
RemoveAllContainingNothing(e, eo, s, bs) == s

\* VCBuilder::RemoveAllContaining(oldGroups, bs)
RemoveAllContaining(e, eo, s, bs) ==
    LET other == OtherColor(e.color)
        xs == SelectSeq(BitsetToSeq(Captains(eo.brd, {e.color, EMPTY})),
                        LAMBDA xc : GetColor(e.brd, e.grp[xc]) /= other)
    IN RemoveAllContainingLoop(s, LoopPairs(xs, 1), bs)

\* the shrunk and re-added entries of `removed`: Fulls
RECURSIVE ShrinkFulls(_, _, _, _, _, _)
ShrinkFulls(e, s, removed, added, xout, yout) ==
    IF ~Reached(s) \/ removed = <<>> THEN s
    ELSE LET v == ShrinkFull(removed[1], added, xout, yout)
             r == AddToList(e, s, FULL, xout, yout, v)
         IN ShrinkFulls(e,
                IF r.res /= ADD_FAILED
                THEN PushFull(e, Bump(r.s, "shrunk0"), v) ELSE r.s,
                Tail(removed), added, xout, yout)

\* [s, wasShrink]
\* a variant of the shrinking of Semis that does not look at the key
RECURSIVE ShrinkSemisAnyKey(_, _, _, _, _, _)
ShrinkSemisAnyKey(e, sw, removed, added, xout, yout) ==
    IF ~Reached(sw) \/ removed = <<>> THEN sw
    ELSE LET v == ShrinkSemi(removed[1], added, xout, yout)
             r == AddToList(e, sw.s, SEMI, xout, yout, v)
         IN ShrinkSemisAnyKey(e,
                IF r.res /= ADD_FAILED
                THEN [s |-> Bump(r.s, "shrunk1"), wasShrink |-> TRUE]
                ELSE [s |-> r.s, wasShrink |-> sw.wasShrink],
                Tail(removed), added, xout, yout)

RECURSIVE ShrinkSemis(_, _, _, _, _, _)
ShrinkSemis(e, sw, removed, added, xout, yout) ==
    IF ~Reached(sw) \/ removed = <<>> THEN sw
    ELSE LET v == ShrinkSemi(removed[1], added, xout, yout)
             r == AddToList(e, sw.s, SEMI, xout, yout, v)
         IN ShrinkSemis(e,
                IF removed[1].key \in added THEN sw
                ELSE IF r.res /= ADD_FAILED
                THEN [s |-> Bump(r.s, "shrunk1"), wasShrink |-> TRUE]
                ELSE [s |-> r.s, wasShrink |-> sw.wasShrink],
                Tail(removed), added, xout, yout)

\* a variant of the upgrades that leaves the Semi list alone
RECURSIVE UpgradeSemisKeepSupersets(_, _, _, _, _, _)
UpgradeSemisKeepSupersets(e, s, removed, added, xout, yout) ==
    IF ~Reached(s) \/ removed = <<>> THEN s
    ELSE LET v == UpgradeSemi(removed[1], added, xout, yout)
             r == AddToList(e, s, FULL, xout, yout, v)
         IN UpgradeSemisKeepSupersets(e,
                IF removed[1].key \notin added THEN s
                ELSE IF r.res /= ADD_FAILED
                THEN PushFull(e, Bump(r.s, "upgraded"), v)
                ELSE r.s,
                Tail(removed), added, xout, yout)

RECURSIVE UpgradeSemis(_, _, _, _, _, _)
UpgradeSemis(e, s, removed, added, xout, yout) ==
    IF ~Reached(s) \/ removed = <<>> THEN s
    ELSE LET v == UpgradeSemi(removed[1], added, xout, yout)
             r == AddToList(e, s, FULL, xout, yout, v)
         IN UpgradeSemis(e,
                IF removed[1].key \notin added THEN s
                ELSE IF r.res /= ADD_FAILED
                THEN PushFull(e, Bump(ListRemoveSuperSetsOf(r.s, SEMI, xout,
                                          yout, v.carrier), "upgraded"), v)
                ELSE r.s,
                Tail(removed), added, xout, yout)

\* VCBuilder::MergeAndShrink(added, xin, yin, xout, yout)
MergeAndShrinkLists(e, s, added, xin, yin, xout, yout) ==
    LET doingMerge == Pair(xin, yin) /= Pair(xout, yout)
        \* Shrink all 0-connections.
        f1 == ListRemoveAllContaining(s, FULL, xin, yin, added)
        fullsIn == GetList(f1.s, FULL, xin, yin)
        f2 == IF doingMerge
              THEN PushFullAll(e, AddListToList(e, f1.s, FULL, xout, yout,
                                                fullsIn), fullsIn)
              ELSE f1.s
        f3 == ShrinkFulls(e, f2, f1.removed, added, xout, yout)
        \* Shrink all 1-connections.
        g1 == ListRemoveAllContaining(f3, SEMI, xin, yin, added)
        g2 == IF doingMerge
              THEN AddListToList(e, g1.s, SEMI, xout, yout,
                                 GetList(g1.s, SEMI, xin, yin))
              ELSE g1.s
        g3 == ShrinkSemis(e, [s |-> g2, wasShrink |-> FALSE], g1.removed,
                          added, xout, yout)
        g4 == IF doingMerge \/ g3.wasShrink
              THEN [g3.s EXCEPT !.sq = SemiEndsQueuePush(@, Pair(xout, yout))]
              ELSE g3.s
    IN UpgradeSemis(e, g4, g1.removed, added, xout, yout)

\* a variant of the loop that shrinks the lists of the pairs that keep their
\* captains and leaves the others where they are
RECURSIVE MergeAndShrinkLoopUnmerged(_, _, _, _)
MergeAndShrinkLoopUnmerged(e, s, prs, added) ==
    IF ~Reached(s) \/ prs = <<>> THEN s
    ELSE LET x == prs[1][1]
             y == prs[1][2]
         IN MergeAndShrinkLoopUnmerged(e,
                IF e.grp[x] = x /\ e.grp[y] = y
                THEN MergeAndShrinkLists(e, s, added, x, y, x, y) ELSE s,
                Tail(prs), added)

RECURSIVE MergeAndShrinkLoop(_, _, _, _)
MergeAndShrinkLoop(e, s, prs, added) ==
    IF ~Reached(s) \/ prs = <<>> THEN s
    ELSE LET x == prs[1][1]
             y == prs[1][2]
             cx == e.grp[x]
             cy == e.grp[y]
         IN MergeAndShrinkLoop(e,
                IF cx /= cy
                THEN MergeAndShrinkLists(e, s, added, x, y, cx, cy) ELSE s,
                Tail(prs), added)

\* VCBuilder::MergeAndShrink(affected, added)
MergeAndShrink(e, s, affected, added) ==
    LET xs == SelectSeq(BitsetToSeq(Stones(e.brd, {e.color, EMPTY})),
                        LAMBDA x : e.grp[x] = x \/ x \in affected)
    IN MergeAndShrinkLoop(e, s, LoopPairs(xs, 1), added)

\* a variant of the merge that kills the opponent's connections and leaves
\* the player's lists as they are
MergeKillOnly(e, eo, s, added) ==
    RemoveAllContaining(e, eo, s, added[OtherColor(e.color)])

\* VCBuilder::Merge(oldGroups, added); added is [BLACK |-> ..., WHITE |-> ...]
Merge(e, eo, s, added) ==
    LET s1 == RemoveAllContaining(e, eo, s, added[OtherColor(e.color)])
        affected == added[e.color]
                    \cup {eo.grp[y] : y \in
                            {q \in UNION {Nbs(e.brd.w, e.brd.h, x) :
                                              x \in added[e.color]} :
                                GetColor(eo.brd, q) = e.color}}
    IN MergeAndShrink(e, s1, affected, added[e.color])

\* the neighbour table rebuilt by the incremental build
RebuiltNbs(e, c) ==
    LET caps == Captains(e.brd, {e.color, EMPTY})
    IN [x \in Cells(e.brd) |->
          IF x \in caps
          THEN {y \in caps : y < x /\ Exists(c, x, y, FULL)}
          ELSE {}]

----------------------------------------------------------------------------
(* VCSet::Revert: undoes the records of a ChangeLog, last record first      *)

RemoveEntry(list, vc) ==
    LET i == FindInList(list, vc)
    IN IF i = 0 THEN list
       ELSE SubSeq(list, 1, i - 1) \o SubSeq(list, i + 1, Len(list))

ClearProcessed(list, vc) ==
    LET i == FindInList(list, vc)
    IN IF i = 0 THEN list ELSE [list EXCEPT ![i].processed = FALSE]

UndoRecord(c, rec) ==
    LET pr == <<rec.vc.x, rec.vc.y>>
        ty == rec.vc.type
    IN IF rec.kind = ADD
       THEN [c EXCEPT ![ty][pr] = RemoveEntry(@, rec.vc)]
       ELSE IF rec.kind = REMOVE
       THEN [c EXCEPT ![ty][pr] = SimpleAdd(@, rec.vc)]
       ELSE [c EXCEPT ![ty][pr] = ClearProcessed(@, rec.vc)]

RECURSIVE Revert(_, _)
Revert(c, recs) ==
    IF ~Reached(c) \/ recs = <<>> THEN c
    ELSE Revert(UndoRecord(c, recs[Len(recs)]), SubSeq(recs, 1, Len(recs) - 1))

----------------------------------------------------------------------------
(* Inputs of a behaviour: position, parameters, pattern libraries           *)

InitPositions ==
    {Position(MaxWidth, MaxHeight, st) :
        st \in {f \in [Interior(MaxWidth, MaxHeight) -> {BLACK, WHITE, EMPTY}] :
                   Cardinality({p \in DOMAIN f : f[p] /= EMPTY}) <= MaxStones}}

\* VCBuilderParam::VCBuilderParam, and the soft limit the lists are made with
DefaultSoftLimit == 10
DefaultParam ==
    [max_ors |-> 4, and_over_edge |-> FALSE, use_patterns |-> TRUE,
     use_non_edge_patterns |-> TRUE, use_greedy_union |-> TRUE,
     abort_on_winning_connection |-> FALSE, softlimit |-> DefaultSoftLimit]

\* the default, and the default with one or two options changed; every
\* option takes each of its values in some setting
Params ==
    {DefaultParam,
     [DefaultParam EXCEPT !.max_ors = 16],
     [DefaultParam EXCEPT !.max_ors = 2, !.use_greedy_union = FALSE],
     [DefaultParam EXCEPT !.and_over_edge = TRUE, !.softlimit = SmallSoftLimit],
     [DefaultParam EXCEPT !.use_patterns = FALSE],
     [DefaultParam EXCEPT !.use_non_edge_patterns = FALSE,
                          !.abort_on_winning_connection = TRUE]}

\* a captured-set pattern, reduced to the offsets of the cells it captures
\* around the cell it is matched on; a library is a sequence of patterns
CapLibs ==
    {<<>>,
     <<{<<1, 0>>, <<1, 1>>}, {<<0, 1>>, <<-1, 1>>}, {<<0, -1>>, <<1, -1>>},
       {<<1, 0>>}>>}

\* the precomputed VC patterns of a board: the bridge between two cells and
\* the bridge from a second-row cell to the edge
Bridges(w, h, color) ==
    LET I == Interior(w, h)
        common(u, v) == (Nbs(w, h, u) \cap Nbs(w, h, v)) \cap I
        inner == {pr \in I \X I :
                     /\ pr[1] < pr[2]
                     /\ pr[2] \notin Nbs(w, h, pr[1])
                     /\ Cardinality(common(pr[1], pr[2])) = 2}
        edge == {pr \in {colorEdge1(color), colorEdge2(color)} \X I :
                     /\ pr[2] \notin Nbs(w, h, pr[1])
                     /\ Cardinality(Nbs(w, h, pr[1]) \cap Nbs(w, h, pr[2])) = 2}
        pat(pr) == [e0 |-> pr[1], e1 |-> pr[2],
                    must_have |-> {pr[1], pr[2]} \cap I,
                    not_opponent |-> ({pr[1], pr[2]} \cap I)
                                     \cup (Nbs(w, h, pr[1]) \cap Nbs(w, h, pr[2]))]
    IN [i \in 1..Cardinality(inner \cup edge) |->
           pat(CHOOSE pr \in inner \cup edge :
                  Cardinality({q \in inner \cup edge :
                                  q[1] < pr[1] \/ (q[1] = pr[1] /\ q[2] < pr[2])})
                  = i - 1)]

Stats0 ==
    [base_attempts |-> 0, base_successes |-> 0, pattern_attempts |-> 0,
     pattern_successes |-> 0, and_full_attempts |-> 0,
     and_full_successes |-> 0, and_semi_attempts |-> 0,
     and_semi_successes |-> 0, or_attempts |-> 0, or_successes |-> 0,
     doOrs |-> 0, goodOrs |-> 0, shrunk0 |-> 0, shrunk1 |-> 0,
     upgraded |-> 0, killed0 |-> 0, killed1 |-> 0]

EmptyCon(b) ==
    [FULL |-> [pr \in Pairs(b) |-> <<>>], SEMI |-> [pr \in Pairs(b) |-> <<>>]]

NoNbs(b) == [p \in Cells(b) |-> {}]

\* what a queue's vector holds after construction
DefaultVC == VCFull(INVALID_POINT, INVALID_POINT, {}, VC_RULE_BASE)
ConstructedFullVCQueue ==
    [array |-> [i \in 1..InitialArraySize |-> DefaultVC], head |-> 0]
ConstructedSemiEndsQueue(seen) ==
    [array |-> [i \in 1..InitialArraySize |-> <<INVALID_POINT, INVALID_POINT>>],
     head |-> 0, seen |-> seen]

\* VCBuilder::ComputeCapturedSets: the cells of the first pattern of the
\* library that hits on an empty cell
ComputeCapturedSets(b, caplib) ==
    LET at(p, shape) == {Cell(b.w, ColOf(b.w, p) + d[1], RowOf(b.w, p) + d[2]) :
                            d \in shape}
        fits(p, shape) == /\ \A d \in shape :
                                /\ ColOf(b.w, p) + d[1] \in 0..(b.w - 1)
                                /\ RowOf(b.w, p) + d[2] \in 0..(b.h - 1)
                          /\ at(p, shape) \subseteq GetEmpty(b)
        hits(p) == {i \in 1..Len(caplib) : fits(p, caplib[i])}
    IN [p \in Cells(b) |->
          IF GetColor(b, p) = EMPTY /\ ~isEdge(p) /\ hits(p) /= {}
          THEN at(p, caplib[Min(hits(p))]) ELSE {}]

----------------------------------------------------------------------------
(* The builder as a state machine *)

Env(b) ==
    [brd |-> b, grp |-> GroupsOf(b), cap |-> ComputeCapturedSets(b, lib.cap),
     color |-> m_color, param |-> param]

CurEnv ==
    [brd |-> brd, grp |-> m_groups, cap |-> m_capturedSet, color |-> m_color,
     param |-> param]

CurState ==
    [con |-> con, nbs |-> m_nbs, fq |-> fulls_queue, sq |-> semis_queue,
     log |-> m_log, stats |-> stats, asserts |-> asserts]

Store(e, s) ==
    /\ brd' = e.brd
    /\ m_groups' = e.grp
    /\ m_capturedSet' = e.cap
    /\ con' = s.con
    /\ m_nbs' = s.nbs
    /\ fulls_queue' = s.fq
    /\ semis_queue' = s.sq
    /\ m_log' = s.log
    /\ stats' = s.stats
    /\ asserts' = s.asserts
    /\ UNCHANGED <<m_color, param, lib>>

\* a variant of the static build that does not clear the set
BuildStaticSeedNoClear(e, s) ==
    LET s0 == [s EXCEPT !.log = [on |-> FALSE, recs |-> <<>>],
                        !.sq = SemiEndsQueueClear(@),
                        !.fq = FullVCQueueClear(@),
                        !.nbs = NoNbs(e.brd)]
        s1 == AddBaseVCs(e, s0)
    IN IF e.param.use_patterns THEN AddPatternVCs(e, s1, lib.vc) ELSE s1

\* VCBuilder::Build(con, groups, patterns) up to the call of DoSearch
BuildStaticSeed(e, s) ==
    LET s0 == [s EXCEPT !.con = EmptyCon(e.brd),
                        !.log = [on |-> FALSE, recs |-> <<>>],
                        !.sq = SemiEndsQueueClear(@),
                        !.fq = FullVCQueueClear(@),
                        !.nbs = NoNbs(e.brd)]
        Patterns(s1) ==
            IF e.param.use_patterns THEN AddPatternVCs(e, s1, lib.vc) ELSE s1
    IN Patterns(AddBaseVCs(e, s0))

\* VCBuilder::Build(con, oldGroups, newGroups, patterns, added, log) up to
\* the call of DoSearch
BuildIncrementalSeed(e, eo, s, added) ==
    LET s0 == [s EXCEPT !.log = [on |-> TRUE, recs |-> <<>>],
                        !.sq = SemiEndsQueueClear(@),
                        !.fq = FullVCQueueClear(@),
                        !.asserts = IF added[BLACK] \cap added[WHITE] = {}
                                    THEN @ ELSE @ \cup {"added disjoint"}]
        Patterns(s1) ==
            IF e.param.use_patterns THEN AddPatternVCs(e, s1, lib.vc) ELSE s1
        Rebuilt(s2) == [s2 EXCEPT !.nbs = RebuiltNbs(e, s2.con)]
    IN Rebuilt(Patterns(Merge(e, eo, s0, added)))

\* Variants of the loop iteration of DoSearch, each with one defect; a
\* property that is meant to rest on DoSearch is also checked against them.
\* (1) the semis queue is served before the fulls queue
DoSearchSemisFirst(e, s) ==
    LET pair == QueueFront(s.sq)
        vc == QueueFront(s.fq)
        s1 == IF ~QueueEmpty(s.sq)
              THEN ProcessSemis(e, [s EXCEPT !.sq = SemiEndsQueuePop(@)],
                                pair[1], pair[2])
              ELSE ProcessFulls(e, [s EXCEPT !.fq = FullVCQueuePop(@)], vc)
        won == /\ e.param.abort_on_winning_connection
               /\ Exists(s1.con, colorEdge1(e.color), colorEdge2(e.color), FULL)
    IN IF QueueEmpty(s.fq) /\ QueueEmpty(s.sq)
       THEN [s |-> s, exit |-> TRUE, winning |-> FALSE]
       ELSE [s |-> s1, exit |-> won, winning |-> won]

\* (2) a Full taken from the fulls queue is put back at its end
DoSearchRequeue(e, s) ==
    LET pair == QueueFront(s.sq)
        vc == QueueFront(s.fq)
        s1 == IF QueueEmpty(s.fq)
              THEN ProcessSemis(e, [s EXCEPT !.sq = SemiEndsQueuePop(@)],
                                pair[1], pair[2])
              ELSE ProcessFulls(e, [s EXCEPT !.fq = FullVCQueuePush(
                                                FullVCQueuePop(@), vc)], vc)
        won == /\ e.param.abort_on_winning_connection
               /\ Exists(s1.con, colorEdge1(e.color), colorEdge2(e.color), FULL)
    IN IF QueueEmpty(s.fq) /\ QueueEmpty(s.sq)
       THEN [s |-> s, exit |-> TRUE, winning |-> FALSE]
       ELSE [s |-> s1, exit |-> won, winning |-> won]

\* (3) the loop is left as soon as the fulls queue is empty
DoSearchFullsOnly(e, s) ==
    LET vc == QueueFront(s.fq)
        s1 == ProcessFulls(e, [s EXCEPT !.fq = FullVCQueuePop(@)], vc)
        won == /\ e.param.abort_on_winning_connection
               /\ Exists(s1.con, colorEdge1(e.color), colorEdge2(e.color), FULL)
    IN IF QueueEmpty(s.fq)
       THEN [s |-> s, exit |-> TRUE, winning |-> FALSE]
       ELSE [s |-> s1, exit |-> won, winning |-> won]

\* (4) abort_on_winning_connection is not looked at
DoSearchNoAbort(e, s) ==
    LET pair == QueueFront(s.sq)
        vc == QueueFront(s.fq)
        s1 == IF QueueEmpty(s.fq)
              THEN ProcessSemis(e, [s EXCEPT !.sq = SemiEndsQueuePop(@)],
                                pair[1], pair[2])
              ELSE ProcessFulls(e, [s EXCEPT !.fq = FullVCQueuePop(@)], vc)
    IN IF QueueEmpty(s.fq) /\ QueueEmpty(s.sq)
       THEN [s |-> s, exit |-> TRUE, winning |-> FALSE]
       ELSE [s |-> s1, exit |-> FALSE, winning |-> FALSE]

\* one iteration of the loop of VCBuilder::DoSearch: [s, exit, winning]
DoSearchIteration(e, s) ==
    LET pair == QueueFront(s.sq)
        vc == QueueFront(s.fq)
        \* the test that follows the processing step
        Tested(s1) ==
            LET won == /\ e.param.abort_on_winning_connection
                       /\ Exists(s1.con, colorEdge1(e.color),
                                 colorEdge2(e.color), FULL)
            IN [s |-> s1, exit |-> won, winning |-> won]
    IN IF QueueEmpty(s.fq) /\ QueueEmpty(s.sq)
       THEN [s |-> s, exit |-> TRUE, winning |-> FALSE]
       ELSE Tested(IF QueueEmpty(s.fq)
                   THEN ProcessSemis(e, [s EXCEPT !.sq = SemiEndsQueuePop(@)],
                                     pair[1], pair[2])
                   ELSE ProcessFulls(e, [s EXCEPT !.fq = FullVCQueuePop(@)],
                                     vc))

\* the assertion that ends DoSearch
DoSearchExit(s, winning) ==
    IF winning \/ (QueueEmpty(s.fq) /\ QueueEmpty(s.sq)) THEN s
    ELSE Fail(s, "winning_connection || queues empty")

Played(b, added) ==
    [b EXCEPT !.col = [p \in DOMAIN @ |->
                          IF p \in added[BLACK] THEN BLACK
                          ELSE IF p \in added[WHITE] THEN WHITE ELSE @[p]]]

AddedChoices(b) ==
    {a \in [{BLACK, WHITE} -> SUBSET (GetEmpty(b))] :
        /\ a[BLACK] \cap a[WHITE] = {}
        /\ Cardinality(a[BLACK]) + Cardinality(a[WHITE]) \in 1..MaxAdded}

\* no pair: the builder runs DoAnd inside its search
NoAnd == [pair |-> <<>>, offers |-> <<>>]

Init ==
    /\ brd \in InitPositions
    /\ m_groups = GroupsOf(brd)
    /\ m_color \in {BLACK}
    /\ param \in Params
    /\ lib \in [cap : CapLibs, vc : {[c \in {BLACK, WHITE} |->
                                        Bridges(MaxWidth, MaxHeight, c)]}]
    /\ m_capturedSet = [p \in Cells(brd) |-> {}]
    /\ con = EmptyCon(brd)
    /\ m_nbs = NoNbs(brd)
    /\ fulls_queue = ConstructedFullVCQueue
    /\ semis_queue \in {ConstructedSemiEndsQueue({}),
                        ConstructedSemiEndsQueue(Cells(brd) \X Cells(brd))}
    /\ m_log = [on |-> FALSE, recs |-> <<>>]
    /\ stats = Stats0
    /\ pc = "idle"
    /\ winning_connection = FALSE
    /\ asserts = {}
    \* hist records what the properties compare: the number and the kind of
    \* the builds so far, the set and the position before the last
    \* incremental build, the set the first build made of its position, and
    \* the set an incremental build made of its position from a static one
    /\ hist = [builds |-> 0, kind |-> "none", prev |-> "none",
               pre |-> EmptyCon(brd), prebrd |-> brd,
               ref |-> EmptyCon(brd), refbrd |-> brd,
               inc |-> EmptyCon(brd), incbrd |-> brd]
    /\ do_and = NoAnd

\* The caller builds the set of the current position from scratch, or takes
\* the stones played since the first build back and builds that position's.
BuildStatic ==
    /\ pc \in {"idle", "done", "reverted"}
    /\ hist.builds < MaxBuilds
    /\ \E b \in {brd, hist.refbrd} :
          LET e == Env(b)
          IN Store(e, BuildStaticSeed(e, CurState))
    /\ pc' = "search"
    /\ winning_connection' = FALSE
    /\ hist' = [hist EXCEPT !.builds = @ + 1, !.kind = "static",
                            !.prev = IF pc = "done" THEN hist.kind ELSE pc]
    /\ UNCHANGED do_and

\* The caller plays stones and updates the set of the position before them.
BuildIncrementalOf(Choices) ==
    /\ pc = "done"
    /\ hist.builds < MaxBuilds
    /\ \E added \in Choices :
          LET e == Env(Played(brd, added))
          IN Store(e, BuildIncrementalSeed(e, CurEnv, CurState, added))
    /\ pc' = "search"
    /\ winning_connection' = FALSE
    /\ hist' = [hist EXCEPT !.builds = @ + 1, !.kind = "incremental",
                            !.prev = hist.kind, !.pre = con, !.prebrd = brd]
    /\ UNCHANGED do_and

BuildIncremental == BuildIncrementalOf(AddedChoices(brd))

DoSearch ==
    /\ pc = "search"
    /\ LET Iterated(r) ==
              /\ Store(CurEnv, IF r.exit THEN DoSearchExit(r.s, r.winning)
                               ELSE r.s)
              /\ pc' = IF r.exit THEN "done" ELSE "search"
              /\ winning_connection' = r.winning
              /\ hist' = IF r.exit /\ hist.builds = 1
                         THEN [hist EXCEPT !.ref = r.s.con]
                         ELSE IF r.exit /\ hist.kind = "incremental"
                                       /\ hist.prev = "static"
                         THEN [hist EXCEPT !.inc = r.s.con, !.incbrd = brd]
                         ELSE hist
              /\ UNCHANGED do_and
       IN Iterated(DoSearchIteration(CurEnv, CurState))

\* the caller rolls the incremental build back
RevertBuild ==
    /\ pc = "done"
    /\ hist.kind = "incremental"
    /\ con' = Revert(con, m_log.recs)
    /\ m_log' = [m_log EXCEPT !.recs = <<>>]
    /\ brd' = hist.prebrd
    /\ m_groups' = GroupsOf(hist.prebrd)
    /\ pc' = "reverted"
    /\ UNCHANGED <<m_color, param, lib, m_capturedSet, m_nbs, fulls_queue,
                   semis_queue, stats, winning_connection, asserts, hist,
                   do_and>>

Next == BuildStatic \/ BuildIncremental \/ DoSearch \/ RevertBuild

Spec == Init /\ [][Next]_vars

----------------------------------------------------------------------------
(* DoAnd's loop body on its own: one pair (a, vc) drawn from bounded sets   *)

\* The pairs it is applied to, on the empty board b: vc is a Full between the
\* captains `over` and `to`, z = `from` is the second cell of the board and
\* lies outside vc's carrier, a is a Full between `from` and `over`,
\* processed or not, and capturedSet is any set of cells but `over`.
AndInputs(b) ==
    LET I == Interior(b.w, b.h)
        caps == Captains(b, {BLACK, EMPTY})
    IN UNION {UNION {UNION {
          {[from |-> from, over |-> over, to |-> to,
            vc |-> VCFull(over, to, c1, VC_RULE_BASE),
            a |-> [VCFull(from, over, c2, VC_RULE_BASE)
                      EXCEPT !.processed = done],
            capturedSet |-> cs] :
              c1 \in SUBSET (I \ {from, over, to}),
              c2 \in SUBSET (I \ {from, over}),
              cs \in SUBSET (I \ {over}),
              done \in BOOLEAN} :
          to \in caps \ {from, over}} :
          from \in {FIRST_CELL + 1}} :
          over \in {colorEdge1(BLACK), FIRST_CELL}}

InitAnd ==
    /\ brd = Position(MaxWidth, MaxHeight,
                      [p \in Interior(MaxWidth, MaxHeight) |-> EMPTY])
    /\ m_groups = GroupsOf(brd)
    /\ m_color = BLACK
    /\ param = DefaultParam
    /\ lib = [cap |-> <<>>,
              vc |-> [c \in {BLACK, WHITE} |->
                         Bridges(MaxWidth, MaxHeight, c)]]
    /\ m_capturedSet = [p \in Cells(brd) |-> {}]
    /\ con = EmptyCon(brd)
    /\ m_nbs = NoNbs(brd)
    /\ fulls_queue = ConstructedFullVCQueue
    /\ semis_queue = ConstructedSemiEndsQueue({})
    /\ m_log = [on |-> FALSE, recs |-> <<>>]
    /\ stats = Stats0
    /\ pc = "and"
    /\ winning_connection = FALSE
    /\ asserts = {}
    /\ hist = [builds |-> 0, kind |-> "none", prev |-> "none",
               pre |-> EmptyCon(brd), prebrd |-> brd,
               ref |-> EmptyCon(brd), refbrd |-> brd,
               inc |-> EmptyCon(brd), incbrd |-> brd]
    /\ do_and \in [pair : AndInputs(brd), offers : {<<>>}]

\* the loop body of DoAnd offers its connections for the pair
DoAndOffer ==
    /\ pc = "and"
    /\ do_and' = [do_and EXCEPT !.offers =
                     AndOffers(do_and.pair.from, do_and.pair.over,
                               do_and.pair.to,
                               AndRuleOf(CurEnv, do_and.pair.over),
                               do_and.pair.vc, do_and.pair.capturedSet,
                               do_and.pair.a)]
    /\ pc' = "offered"
    /\ UNCHANGED <<brd, m_groups, m_color, param, lib, m_capturedSet, con,
                   m_nbs, fulls_queue, semis_queue, m_log, stats,
                   winning_connection, asserts, hist>>

NextAnd == DoAndOffer

SpecAnd == InitAnd /\ [][NextAnd]_vars

\* The bounded OR rule on its own: Semi lists between a1 and c2 of the empty
\* 3x2 board, as VCList keeps them (no carrier inside another, smaller
\* carriers first), with one Semi unprocessed, the seed of the call.
OrInputs(b) ==
    LET C == (SUBSET (Interior(b.w, b.h) \ {FIRST_CELL, Cell(b.w, b.w - 1, 1)}))
             \ {{}}
        Lists == {L \in UNION {[1..n -> C] : n \in 2..MaxSemis} :
                     \A i, j \in 1..Len(L) :
                         i < j => /\ Cardinality(L[i]) <= Cardinality(L[j])
                                  /\ ~(L[i] \subseteq L[j])}
    IN UNION {{[i \in 1..Len(L) |->
                   [VCSemi(FIRST_CELL, Cell(b.w, b.w - 1, 1), Min(L[i]), L[i],
                           VC_RULE_AND) EXCEPT !.processed = (i /= k)]] :
                  k \in 1..Len(L)} : L \in Lists}

InitOr ==
    /\ brd = Position(3, 2, [p \in Interior(3, 2) |-> EMPTY])
    /\ m_groups = GroupsOf(brd)
    /\ m_color = BLACK
    /\ param \in {[DefaultParam EXCEPT !.max_ors = m] : m \in 1..MaxOrsTried}
    /\ lib = [cap |-> <<>>,
              vc |-> [c \in {BLACK, WHITE} |-> Bridges(3, 2, c)]]
    /\ m_capturedSet \in {[p \in Cells(brd) |-> {}],
                          [p \in Cells(brd) |->
                              IF p = FIRST_CELL THEN {FIRST_CELL + 1} ELSE {}]}
    /\ con \in {[EmptyCon(brd) EXCEPT
                    !.SEMI[Pair(FIRST_CELL, Cell(3, 2, 1))] = list] :
                  list \in OrInputs(brd)}
    /\ m_nbs = NoNbs(brd)
    /\ fulls_queue = ConstructedFullVCQueue
    /\ semis_queue = ConstructedSemiEndsQueue({})
    /\ m_log = [on |-> FALSE, recs |-> <<>>]
    /\ stats = Stats0
    /\ pc = "or"
    /\ winning_connection = FALSE
    /\ asserts = {}
    /\ hist = [builds |-> 0, kind |-> "none", prev |-> "none",
               pre |-> con, prebrd |-> brd,
               ref |-> EmptyCon(brd), refbrd |-> brd,
               inc |-> EmptyCon(brd), incbrd |-> brd]
    /\ do_and = NoAnd

\* one call of the rule, seeded with the unprocessed Semi of the list
OrRuleCall ==
    /\ pc = "or"
    /\ LET pr == CHOOSE p \in Pairs(brd) : con[SEMI][p] /= <<>>
           vc == CHOOSE v \in {con[SEMI][pr][i] : i \in 1..Len(con[SEMI][pr])} :
                     ~v.processed
           Called(r) ==
               /\ Store(CurEnv, r.s)
               /\ do_and' = [pair |-> <<>>, offers |-> r.added]
       IN Called(OrRule(CurEnv, CurState, <<>>, vc, pr[1], pr[2],
                        param.max_ors))
    /\ pc' = "ored"
    /\ UNCHANGED <<winning_connection, hist>>

NextOr == OrRuleCall

SpecOr == InitOr /\ [][NextOr]_vars

\* One call of MergeAndShrink(added, xin, yin, xout, yout) on its own, on the
\* 3x2 board where Black had b2 and has played the cells of `added`, which
\* puts both edges in one group: the lists between xin (N, or S, which is
\* merged into N) and c1 hold Semis as VCList keeps them, each touching
\* `added`, keyed on a cell of its carrier; the Fulls between N and c1 are
\* none or one that `added` leaves alone.
InitMerge ==
    LET b2 == Cell(3, 1, 1)
        c1 == Cell(3, 2, 0)
        C(added) == {c \in SUBSET (Interior(3, 2) \ {b2, c1}) :
                        c \cap added /= {}}
        Lists(added) ==
            {L \in UNION {[1..n -> C(added)] : n \in 1..MaxSemis} :
                \A i, j \in 1..Len(L) :
                    i < j => /\ Cardinality(L[i]) <= Cardinality(L[j])
                             /\ ~(L[i] \subseteq L[j])}
        Keyed(xin, L) ==
            {[i \in 1..Len(L) |-> VCSemi(xin, c1, k[i], L[i], VC_RULE_AND)] :
                k \in {f \in [1..Len(L) -> Interior(3, 2)] :
                          \A i \in 1..Len(L) : f[i] \in {Min(L[i]), Max(L[i])}}}
    IN /\ do_and \in [pair : [xin : {NORTH, SOUTH},
                              added : {{FIRST_CELL + 1},
                                       {FIRST_CELL, FIRST_CELL + 1}}],
                      offers : {<<>>}]
       /\ brd = Position(3, 2, [p \in Interior(3, 2) |->
                                  IF p \in do_and.pair.added \cup {b2}
                                  THEN BLACK ELSE EMPTY])
       /\ m_groups = GroupsOf(brd)
       /\ m_color = BLACK
       /\ param = DefaultParam
       /\ lib = [cap |-> <<>>,
                 vc |-> [c \in {BLACK, WHITE} |-> Bridges(3, 2, c)]]
       /\ m_capturedSet = [p \in Cells(brd) |-> {}]
       /\ \E L \in Lists(do_and.pair.added) :
             \E semis \in Keyed(do_and.pair.xin, L) :
                 \E fulls \in {<<>>, <<VCFull(NORTH, c1, {Cell(3, 0, 1)},
                                             VC_RULE_BASE)>>} :
                     con = [EmptyCon(brd) EXCEPT
                               !.SEMI[Pair(do_and.pair.xin, c1)] = semis,
                               !.FULL[Pair(NORTH, c1)] = fulls]
       /\ m_nbs = NoNbs(brd)
       /\ fulls_queue = FullVCQueueClear(ConstructedFullVCQueue)
       /\ semis_queue = SemiEndsQueueClear(ConstructedSemiEndsQueue({}))
       /\ m_log = [on |-> TRUE, recs |-> <<>>]
       /\ stats = Stats0
       /\ pc = "merge"
       /\ winning_connection = FALSE
       /\ asserts = {}
       /\ hist = [builds |-> 0, kind |-> "none", prev |-> "none",
                  pre |-> con, prebrd |-> brd,
                  ref |-> EmptyCon(brd), refbrd |-> brd,
                  inc |-> EmptyCon(brd), incbrd |-> brd]

\* the call; do_and keeps the Semis the call removes from the list it reads
MergeCall ==
    /\ pc = "merge"
    /\ LET c1 == Cell(3, 2, 0)
           xin == do_and.pair.xin
       IN /\ Store(CurEnv, MergeAndShrinkLists(CurEnv, CurState,
                                               do_and.pair.added, xin, c1,
                                               m_groups[xin], m_groups[c1]))
          /\ do_and' = [do_and EXCEPT !.offers =
                          SelectSeq(con[SEMI][Pair(xin, c1)],
                                    LAMBDA v : v.carrier \cap do_and.pair.added
                                               /= {})]
    /\ pc' = "merged"
    /\ UNCHANGED <<winning_connection, hist>>

NextMerge == MergeCall

SpecMerge == InitMerge /\ [][NextMerge]_vars

\* The builder on three positions of the 3x3 board, each built statically
\* for Black with the default parameters, with abort_on_winning_connection,
\* with the enhanced OR or with a small soft limit, without and with
\* captured-set patterns; after
\* the static build of the third, Black plays b2 and the set is built
\* incrementally.
BoardOf(S) ==
    Position(3, 3, [p \in Interior(3, 3) |-> IF p \in S THEN BLACK ELSE EMPTY])
SecondRow == BoardOf({Cell(3, c, 1) : c \in 0..2})
EmptyBoard == BoardOf({})
SecondColumnEnds == BoardOf({Cell(3, 1, 0), Cell(3, 1, 2)})

InitBoard ==
    /\ brd \in {SecondRow, EmptyBoard, SecondColumnEnds}
    /\ m_groups = GroupsOf(brd)
    /\ m_color = BLACK
    /\ param \in {DefaultParam,
                  [DefaultParam EXCEPT !.abort_on_winning_connection = TRUE],
                  [DefaultParam EXCEPT !.max_ors = 16],
                  [DefaultParam EXCEPT !.softlimit = SmallSoftLimit, !.max_ors = 16]}
    /\ lib \in [cap : CapLibs,
                vc : {[c \in {BLACK, WHITE} |-> Bridges(3, 3, c)]}]
    /\ m_capturedSet = [p \in Cells(brd) |-> {}]
    /\ con = EmptyCon(brd)
    /\ m_nbs = NoNbs(brd)
    /\ fulls_queue = ConstructedFullVCQueue
    /\ semis_queue = ConstructedSemiEndsQueue({})
    /\ m_log = [on |-> FALSE, recs |-> <<>>]
    /\ stats = Stats0
    /\ pc = "idle"
    /\ winning_connection = FALSE
    /\ asserts = {}
    /\ hist = [builds |-> 0, kind |-> "none", prev |-> "none",
               pre |-> EmptyCon(brd), prebrd |-> brd,
               ref |-> EmptyCon(brd), refbrd |-> brd,
               inc |-> EmptyCon(brd), incbrd |-> brd]
    /\ do_and = NoAnd

BuildFirst == hist.builds = 0 /\ BuildStatic

PlayCentre ==
    /\ hist.builds = 1
    /\ brd = SecondColumnEnds
    /\ BuildIncrementalOf({[c \in {BLACK, WHITE} |->
                              IF c = BLACK THEN {Cell(3, 1, 1)} ELSE {}]})

NextBoard == BuildFirst \/ DoSearch \/ PlayCentre

SpecBoard == InitBoard /\ [][NextBoard]_vars

----------------------------------------------------------------------------

(* handbook-add (CommonHtpEngine::CmdHandbookAdd) applied on its own to a   *)
(* game read from an sgf file.  do_and holds the arguments and the handbook *)
(* file: [root, nodes, colorToSave, maxMove, book, out, failure].           *)
(* ------------------------------------------------------------------------ *)

\* most nodes after the root of a game, and the largest max move # argument
MaxNodes == 4
MaxMoveArg == 5

FIRST_TO_PLAY == BLACK

\* StoneBoard::Hash, as the stones it hashes
Hash(b) == {<<p, b.col[p]>> : p \in Stones(b, {BLACK, WHITE}) \ Edges}
PlayMove(b, color, p) == [b EXCEPT !.col[p] = color]

\* a variant of the loop body that saves the move from the empty board too
HandbookStepFromFirst(st, nodes, colorToSave) ==
    LET cur == st.cur + 1
    IN IF cur > Len(nodes) THEN [st EXCEPT !.done = TRUE]
       ELSE IF nodes[cur].setup
       THEN [st EXCEPT !.failure = "Node has setup info"]
       ELSE IF ~nodes[cur].hasMove /\ ~(cur < Len(nodes))
       THEN [st EXCEPT !.cur = cur, !.done = TRUE]
       ELSE IF ~nodes[cur].hasMove
       THEN [st EXCEPT !.failure = "Node has no move"]
       ELSE IF st.color /= nodes[cur].player
       THEN [st EXCEPT !.failure = "Unexpected color to move"]
       ELSE [st EXCEPT
                !.cur = cur,
                !.hashes = IF st.color = colorToSave
                           THEN Append(@, Hash(st.brd)) ELSE @,
                !.responses = IF st.color = colorToSave
                              THEN Append(@, nodes[cur].move) ELSE @,
                !.brd = PlayMove(@, st.color, nodes[cur].move),
                !.color = OtherColor(@),
                !.moveNum = @ + 1]

\* the body of the loop over the nodes; st is [brd, color, hashes,
\* responses, cur, moveNum, failure, done], cur the index of the node cur
\* points to (0 for the root) and done the loop's break
HandbookStep(st, nodes, colorToSave) ==
    LET cur == st.cur + 1
    IN IF cur > Len(nodes) THEN [st EXCEPT !.done = TRUE]
       ELSE IF nodes[cur].setup
       THEN [st EXCEPT !.failure = "Node has setup info"]
       ELSE IF ~nodes[cur].hasMove /\ ~(cur < Len(nodes))
       THEN [st EXCEPT !.cur = cur, !.done = TRUE]
       ELSE IF ~nodes[cur].hasMove
       THEN [st EXCEPT !.failure = "Node has no move"]
       ELSE IF st.color /= nodes[cur].player
       THEN [st EXCEPT !.failure = "Unexpected color to move"]
       ELSE [st EXCEPT
                !.cur = cur,
                !.hashes = IF st.moveNum /= 0 /\ st.color = colorToSave
                           THEN Append(@, Hash(st.brd)) ELSE @,
                !.responses = IF st.moveNum /= 0 /\ st.color = colorToSave
                              THEN Append(@, nodes[cur].move) ELSE @,
                !.brd = PlayMove(@, st.color, nodes[cur].move),
                !.color = OtherColor(@),
                !.moveNum = @ + 1]

RECURSIVE HandbookLoop(_, _, _, _)
HandbookLoop(st, nodes, colorToSave, maxMove) ==
    IF ~(st.moveNum < maxMove) \/ st.done \/ st.failure /= "" THEN st
    ELSE HandbookLoop(HandbookStep(st, nodes, colorToSave), nodes,
                      colorToSave, maxMove)

\* the command on the game board `board`: the file it leaves and the
\* HtpFailure it throws ("" for none)
CmdHandbookAdd(board, arg) ==
    IF arg.root.setup
    THEN [out |-> arg.book, failure |-> "Root has setup info!"]
    ELSE IF arg.root.size /= board.w \/ arg.root.size /= board.h
    THEN [out |-> arg.book, failure |-> "Sgf boardsize does not match board"]
    ELSE LET st == HandbookLoop([brd |-> board, color |-> FIRST_TO_PLAY,
                                 hashes |-> <<>>, responses |-> <<>>,
                                 cur |-> 0, moveNum |-> 0, failure |-> "",
                                 done |-> FALSE],
                                arg.nodes, arg.colorToSave, arg.maxMove)
         IN IF st.failure /= ""
            THEN [out |-> arg.book, failure |-> st.failure]
            ELSE [out |-> arg.book \o
                           [i \in 1..Len(st.hashes) |->
                               <<st.hashes[i], st.responses[i]>>],
                  failure |-> ""]

\* the k-th node of a game: with or without setup information (s), without
\* a move (c = EMPTY) or with a move of colour c on the k-th cell
SgNode(k, s, c) ==
    [setup |-> s, hasMove |-> c /= EMPTY, player |-> c,
     move |-> IF c = EMPTY THEN INVALID_POINT ELSE FIRST_CELL + k - 1]
Games(n) ==
    {[k \in 1..n |-> SgNode(k, f[k][1], f[k][2])] :
        f \in [1..n -> BOOLEAN \X {BLACK, WHITE, EMPTY}]}

InitHandbook ==
    /\ brd = Position(MaxWidth, MaxHeight,
                      [p \in Interior(MaxWidth, MaxHeight) |-> EMPTY])
    /\ \E n \in 0..MaxNodes :
          do_and \in [root : [setup : BOOLEAN,
                              size : {MaxWidth, MaxWidth + 1}],
                      nodes : Games(n),
                      colorToSave : {BLACK, WHITE},
                      maxMove : 0..MaxMoveArg,
                      book : {<<<<Hash(PlayMove(brd, BLACK, FIRST_CELL)),
                                  FIRST_CELL + 1>>>>},
                      out : {<<>>},
                      failure : {""}]
    /\ m_groups = GroupsOf(brd)
    /\ m_color = BLACK
    /\ param = DefaultParam
    /\ lib = [cap |-> <<>>, vc |-> [c \in {BLACK, WHITE} |-> <<>>]]
    /\ m_capturedSet = [p \in Cells(brd) |-> {}]
    /\ con = EmptyCon(brd)
    /\ m_nbs = NoNbs(brd)
    /\ fulls_queue = ConstructedFullVCQueue
    /\ semis_queue = ConstructedSemiEndsQueue({})
    /\ m_log = [on |-> FALSE, recs |-> <<>>]
    /\ stats = Stats0
    /\ pc = "handbook-add"
    /\ winning_connection = FALSE
    /\ asserts = {}
    /\ hist = [builds |-> 0, kind |-> "none", prev |-> "none",
               pre |-> con, prebrd |-> brd,
               ref |-> con, refbrd |-> brd,
               inc |-> con, incbrd |-> brd]

HandbookAddCall ==
    /\ pc = "handbook-add"
    /\ LET r == CmdHandbookAdd(brd, do_and)
       IN /\ do_and' = [do_and EXCEPT !.out = r.out, !.failure = r.failure]
          /\ pc' = IF r.failure = "" THEN "appended" ELSE "failed"
    /\ UNCHANGED <<brd, m_groups, m_color, param, lib, m_capturedSet, con,
                   m_nbs, fulls_queue, semis_queue, m_log, stats,
                   winning_connection, asserts, hist>>

NextHandbook == HandbookAddCall

SpecHandbook == InitHandbook /\ [][NextHandbook]_vars

----------------------------------------------------------------------------


(* BookUtil::BestMove applied on its own to a state and a book.  do_and     *)
(* holds the arguments and the result: [state, book, minCount, countWeight, *)
(* out], a state being [brd, toPlay] and the book a function from the       *)
(* hashes of the states it holds to their nodes [m_value, m_count].         *)
(* ------------------------------------------------------------------------ *)

\* largest count of a book node and largest minCount argument
MaxCount == 2
\* floats are held in thousandths
Milli == 1000
\* log(n + 1), in thousandths, for the counts of the model
LogOfCountPlusOne(n) ==
    IF n = 0 THEN 0 ELSE IF n = 1 THEN 693 ELSE IF n = 2 THEN 1099 ELSE 1386

StateHash(state) == <<Hash(state.brd), state.toPlay>>
HexStatePlayMove(state, p) ==
    [brd |-> PlayMove(state.brd, state.toPlay, p),
     toPlay |-> OtherColor(state.toPlay)]
HexStateUndoMove(state, p) ==
    [brd |-> PlayMove(state.brd, EMPTY, p),
     toPlay |-> OtherColor(state.toPlay)]
\* Book::Get: whether the book holds the state
BookGet(book, state) == StateHash(state) \in DOMAIN book

IsLeaf(node) == node.m_count = 0
\* win and loss values lie outside [0, 1]
IsWinOrLoss(eval) == eval < 0 \/ eval > Milli
IsTerminal(node) == IsWinOrLoss(node.m_value)
InverseEval(eval) == IF IsWinOrLoss(eval) THEN 0 - eval ELSE Milli - eval
\* the swap move is legal when one stone is on the board
BookValue(node, state) ==
    IF Cardinality(Hash(state.brd)) = 1
    THEN Max({node.m_value, InverseEval(node.m_value)})
    ELSE node.m_value
Score(node, state, countWeight) ==
    InverseEval(BookValue(node, state))
        + (IF IsTerminal(node) THEN 0
           ELSE LogOfCountPlusOne(node.m_count) * countWeight)

\* the loop of BestMove over the empty cells ps of the copy of the state;
\* b is [bestScore, bestChild, state]
RECURSIVE BestMoveLoop(_, _, _, _)
BestMoveLoop(book, countWeight, b, ps) ==
    IF ps = <<>> THEN b
    ELSE LET played == HexStatePlayMove(b.state, ps[1])
             better == /\ BookGet(book, played)
                       /\ Score(book[StateHash(played)], played, countWeight)
                              > b.bestScore
         IN BestMoveLoop(book, countWeight,
                [bestScore |-> IF better
                               THEN Score(book[StateHash(played)], played,
                                          countWeight)
                               ELSE b.bestScore,
                 bestChild |-> IF better THEN ps[1] ELSE b.bestChild,
                 state |-> HexStateUndoMove(played, ps[1])],
                Tail(ps))

\* the move returned, the copy of the state at the return and the
\* assertions that failed; the initial best score -1e9 is kept as a number
\* of thousandths that is below every score
BestMove(book, origState, minCount, countWeight) ==
    IF ~BookGet(book, origState)
       \/ book[StateHash(origState)].m_count < minCount
    THEN [move |-> INVALID_POINT, state |-> origState, asserts |-> {}]
    ELSE LET b == BestMoveLoop(book, countWeight,
                      [bestScore |-> 0 - 1000000000,
                       bestChild |-> INVALID_POINT, state |-> origState],
                      BitsetToSeq(GetEmpty(origState.brd)))
         IN [move |-> b.bestChild, state |-> b.state,
             asserts |-> IF b.bestChild /= INVALID_POINT THEN {}
                         ELSE {"bestChild != INVALID_POINT"}]

\* the states a book of the model can hold: the caller's and its successors
BookStates(state) ==
    {state} \cup {HexStatePlayMove(state, p) : p \in GetEmpty(state.brd)}
BookNodes ==
    [m_value : {0, Milli}, m_count : 0..MaxCount]

InitBook ==
    /\ \E stones \in {{}, {FIRST_CELL + 1}} :
          brd = Position(MaxWidth, MaxHeight,
                         [p \in Interior(MaxWidth, MaxHeight) |->
                             IF p = FIRST_CELL THEN BLACK
                             ELSE IF p \in stones THEN WHITE ELSE EMPTY])
    /\ \E held \in SUBSET {StateHash(s) :
                              s \in BookStates([brd |-> brd,
                                                toPlay |-> BLACK])} :
          do_and \in [state : {[brd |-> brd, toPlay |-> BLACK]},
                      book : [held -> BookNodes],
                      minCount : 0..MaxCount,
                      countWeight : {0, 1},
                      out : {[move |-> INVALID_POINT,
                              state |-> [brd |-> brd, toPlay |-> BLACK],
                              asserts |-> {}]}]
    /\ m_groups = GroupsOf(brd)
    /\ m_color = BLACK
    /\ param = DefaultParam
    /\ lib = [cap |-> <<>>, vc |-> [c \in {BLACK, WHITE} |-> <<>>]]
    /\ m_capturedSet = [p \in Cells(brd) |-> {}]
    /\ con = EmptyCon(brd)
    /\ m_nbs = NoNbs(brd)
    /\ fulls_queue = ConstructedFullVCQueue
    /\ semis_queue = ConstructedSemiEndsQueue({})
    /\ m_log = [on |-> FALSE, recs |-> <<>>]
    /\ stats = Stats0
    /\ pc = "book"
    /\ winning_connection = FALSE
    /\ asserts = {}
    /\ hist = [builds |-> 0, kind |-> "none", prev |-> "none",
               pre |-> con, prebrd |-> brd,
               ref |-> con, refbrd |-> brd,
               inc |-> con, incbrd |-> brd]

BestMoveCall ==
    /\ pc = "book"
    /\ LET r == BestMove(do_and.book, do_and.state, do_and.minCount,
                         do_and.countWeight)
       IN /\ do_and' = [do_and EXCEPT !.out = r]
          /\ asserts' = asserts \cup r.asserts
    /\ pc' = "returned"
    /\ UNCHANGED <<brd, m_groups, m_color, param, lib, m_capturedSet, con,
                   m_nbs, fulls_queue, semis_queue, m_log, stats,
                   winning_connection, hist>>

NextBook == BestMoveCall

SpecBook == InitBook /\ [][NextBook]_vars

----------------------------------------------------------------------------

(* Properties *)

OwnCaptains == Captains(brd, {m_color, EMPTY})
CaptainPairs ==
    {pr \in Pairs(brd) : pr[1] \in OwnCaptains /\ pr[2] \in OwnCaptains}
BothTypes == {FULL, SEMI}

\* the entries of a queue that were pushed and are not yet popped
Pending(q) == SubSeq(q.array, q.head + 1, Len(q.array))
Entries(list) == {list[i] : i \in 1..Len(list)}
CarriersIn(list) == {list[i].carrier : i \in 1..Len(list)}
Unprocessed(c, type, pr) == {v \in Entries(c[type][pr]) : ~v.processed}

Abort == param.abort_on_winning_connection
WinningFull == Exists(con, colorEdge1(m_color), colorEdge2(m_color), FULL)
QueuesEmpty == QueueEmpty(fulls_queue) /\ QueueEmpty(semis_queue)
Searching == pc = "search"
Returned(kind) == pc = "done" /\ hist.kind = kind

\* C1: in the semis queue an endpoint pair occurs at most once among the
\* entries pushed and not yet popped, whatever was cleared, pushed and popped
\* before.  (The builder clears the queue at the start of every build.)
SemisQueuePairsUnique ==
    pc /= "idle" =>
        \A i, j \in 1..Len(Pending(semis_queue)) :
            i /= j => Pending(semis_queue)[i] /= Pending(semis_queue)[j]

\* C2: a loop iteration of the search pops the semis queue only if it begins
\* with the fulls queue empty; if the fulls queue is not empty the iteration
\* pops its front, leaves the semis queue alone and processes that Full.
FullsQueueServedFirst ==
    [][Searching =>
          IF QueueEmpty(fulls_queue)
          THEN fulls_queue'.head = fulls_queue.head
          ELSE /\ semis_queue'.head = semis_queue.head
               /\ fulls_queue'.head = fulls_queue.head + 1
               /\ LET vc == QueueFront(fulls_queue)
                  IN \A v \in Entries(con'[FULL][<<vc.x, vc.y>>]) :
                        v.carrier = vc.carrier => v.processed]_vars

\* a search that has popped pairs of the semis queue finds Fulls queued again
FullsQueuedAfterSemis ==
    Searching /\ semis_queue.head > 0 /\ ~QueueEmpty(fulls_queue)

\* The carriers that can no longer be added to the list `type` of the pair:
\* a carrier is refused if it contains the carrier of a Full of the pair, a
\* Semi's also if it contains the carrier of a Semi of the pair.
Refused(type, pr) ==
    LET below == IF type = FULL THEN CarriersIn(con[FULL][pr])
                 ELSE CarriersIn(con[FULL][pr]) \cup CarriersIn(con[SEMI][pr])
    IN {k \in SUBSET Interior(brd.w, brd.h) : \E f \in below : f \subseteq k}

RefusedIn(type) ==
    UNION {{<<pr, k>> : k \in Refused(type, pr)} :
              pr \in {q \in Pairs(brd) : con[FULL][q] /= <<>>
                                         \/ con[type][q] /= <<>>}}

\* twice the number of carriers that can still be added, plus the number of
\* queue entries waiting: a natural number
Rank ==
    Len(Pending(fulls_queue)) + Len(Pending(semis_queue))
    + 2 * (2 * Cardinality(Pairs(brd)) * 2 ^ (brd.w * brd.h)
           - Cardinality(RefusedIn(FULL)) - Cardinality(RefusedIn(SEMI)))

\* C3: the search terminates, in a static and in an incremental build: every
\* loop iteration that does not leave the search lowers a natural number, so
\* only finitely many ProcessFulls/ProcessSemis steps follow one another.
SearchStepLowersRank ==
    [][Searching => (pc' = "done" \/ (Rank' < Rank /\ Rank' >= 0))]_vars

\* the search of an incremental build has served both queues and returned
IncrementalSearchReturned ==
    /\ Returned("incremental")
    /\ fulls_queue.head > 0
    /\ semis_queue.head > 0

\* C4: DoSearch's final assertion holds on every return, and without
\* abort_on_winning_connection both queues are empty on return.
QueuesEmptyAtReturn ==
    pc = "done" =>
        /\ "winning_connection || queues empty" \notin asserts
        /\ ~Abort => QueuesEmpty

\* a search without abort has served both queues and returned
SearchServedBothQueues ==
    /\ pc = "done"
    /\ ~Abort
    /\ fulls_queue.head > 0
    /\ semis_queue.head > 0

\* C5: when a build returns without abort_on_winning_connection, every VC of
\* every Full and Semi list between own-or-empty captains is processed.
AllProcessedAtReturn ==
    (pc = "done" /\ ~Abort) =>
        \A pr \in CaptainPairs : \A type \in BothTypes :
            Unprocessed(con, type, pr) = {}

\* C5, as the code has it: when a static build returns without
\* abort_on_winning_connection, every Full of every list is processed.
StaticFullsProcessedAtReturn ==
    (Returned("static") /\ ~Abort) =>
        \A pr \in Pairs(brd) : Unprocessed(con, FULL, pr) = {}

\* a static build has returned with processed Fulls and an unprocessed Semi
\* between captains
StaticBuildLeftSemiUnprocessed ==
    /\ Returned("static")
    /\ ~Abort
    /\ \E pr \in CaptainPairs : Unprocessed(con, SEMI, pr) /= {}
    /\ \E pr \in CaptainPairs : con[FULL][pr] /= <<>>

\* C6: with abort_on_winning_connection no ProcessFulls or ProcessSemis call
\* begins while a Full between the builder's two edges is in the set.
NoStepWithWinningFull ==
    (Searching /\ Abort /\ ~QueuesEmpty) => ~WinningFull

\* C6, as the code has it: the set is tested after each step, so a step
\* begins with the winning Full in the set only as the first step of a
\* search, when the seeding or the merge put that Full there.
WinningFullOnlyAtFirstStep ==
    (Searching /\ Abort /\ WinningFull) =>
        fulls_queue.head = 0 /\ semis_queue.head = 0

\* a search left on the winning connection with work still queued
AbortedWithWorkQueued ==
    /\ pc = "done"
    /\ Abort
    /\ winning_connection
    /\ ~QueuesEmpty
    /\ fulls_queue.head + semis_queue.head > 0

NoFullBelow(c, pr, carrier) ==
    ~\E f \in CarriersIn(c[FULL][pr]) : f \subseteq carrier
SemisOf(c, pr) == {k \in CarriersIn(c[SEMI][pr]) : NoFullBelow(c, pr, k)}
SameCarriers(c, d) ==
    \A pr \in CaptainPairs :
        /\ CarriersIn(c[FULL][pr]) = CarriersIn(d[FULL][pr])
        /\ SemisOf(c, pr) = SemisOf(d, pr)

\* C8: a static build followed by an incremental build for the stones played
\* gives, between the new own-or-empty captains, the Full and Semi carriers
\* of a static build of the resulting position, Semis that contain a Full's
\* carrier aside.  (Here with the default parameters and no captured sets;
\* the static build compared with is the builder's next build.)
IncrementalEqualsStatic ==
    (/\ Returned("static")
     /\ hist.prev = "incremental"
     /\ brd = hist.incbrd
     /\ param = DefaultParam
     /\ lib.cap = <<>>) => SameCarriers(hist.inc, con)

\* C9: a static build of a position gives the same carriers in every Full
\* and Semi list as the builder's first build of that position gave,
\* whatever the builder built in between and whatever the set contained.
StaticBuildIndependentOfHistory ==
    (Returned("static") /\ hist.builds > 1 /\ brd = hist.refbrd) =>
        \A type \in BothTypes : \A pr \in Pairs(brd) :
            CarriersIn(con[type][pr]) = CarriersIn(hist.ref[type][pr])

\* a static build of the first position has returned after an incremental
\* build of another position had filled the set
StaticRebuiltAfterIncremental ==
    /\ Returned("static")
    /\ hist.prev = "incremental"
    /\ brd = hist.refbrd
    /\ brd /= hist.incbrd
    /\ hist.inc /= hist.ref
    /\ con /= EmptyCon(brd)

\* C10: every VC of the list of (x, y) has the endpoints x and y, x /= y,
\* and a carrier that contains neither of them, also when the carrier was
\* widened by captured sets or is the union of a whole Semi list.
EndpointsOutsideCarrier ==
    \A type \in BothTypes : \A pr \in Pairs(brd) :
        \A v \in Entries(con[type][pr]) :
            /\ v.x = pr[1]
            /\ v.y = pr[2]
            /\ v.x /= v.y
            /\ v.carrier \cap {pr[1], pr[2]} = {}

\* the cells played between the position before the last incremental build
\* and the current one, by colour
AddedStones(color) ==
    {p \in Cells(brd) : GetColor(hist.prebrd, p) = EMPTY
                        /\ GetColor(brd, p) = color}

SemiKeyInCarrier ==
    \A pr \in Pairs(brd) : \A v \in Entries(con[SEMI][pr]) :
        v.key \in v.carrier

\* the set holds Semis after the AND rule made some and the merge shrank some
SemisMadeAndShrunk ==
    /\ pc = "done"
    /\ stats.and_semi_successes > 0
    /\ stats.shrunk1 > 0
    /\ \E pr \in CaptainPairs : con[SEMI][pr] /= <<>>

\* C14: while the search runs, every neighbour recorded for a cell is joined
\* to it by at least one Full.
NbsHaveFull ==
    Searching =>
        \A x \in Cells(brd) : \A y \in m_nbs[x] :
            Exists(con, m_groups[x], m_groups[y], FULL)

\* C15: when the search of an incremental build starts, a captain is recorded
\* as neighbour of another exactly when a Full joins the two, in both
\* directions.
NbsMatchFullsAtSearchStart ==
    (Searching /\ hist.kind = "incremental"
        /\ fulls_queue.head = 0 /\ semis_queue.head = 0) =>
        \A cx \in OwnCaptains : \A cy \in OwnCaptains \ {cx} :
            cy \in m_nbs[cx] <=> Exists(con, cx, cy, FULL)

\* The pairs (a, vc) the AND closure of the Full at the front of the queue
\* examines: vc joins the captains endp[1] and endp[2], z is a recorded
\* neighbour of the endpoint `over`, and a is a processed entry of the soft
\* prefix of the Fulls between z and `over`.
AndPairsOf(vc) ==
    LET endp == <<m_groups[vc.x], m_groups[vc.y]>>
    IN UNION {UNION {
          {[from |-> z, over |-> endp[i], to |-> endp[3 - i], vc |-> vc,
            a |-> a,
            capturedSet |-> m_capturedSet[endp[1]] \cup m_capturedSet[endp[2]]
                            \cup m_capturedSet[z]] :
              a \in {b \in Entries(Prefix(con[FULL][Pair(z, endp[i])],
                                          param.softlimit)) : b.processed}} :
          z \in (m_nbs[endp[i]] \ {endp[1], endp[2]}) \ vc.carrier} :
          i \in {j \in 1..2 : param.and_over_edge \/ ~isEdge(endp[j])}}
AndPairs ==
    IF Searching /\ ~QueueEmpty(fulls_queue)
    THEN AndPairsOf(QueueFront(fulls_queue))
    ELSE {}
Offers(p) ==
    AndOffers(p.from, p.over, p.to, AndRuleOf(CurEnv, p.over), p.vc,
              p.capturedSet, p.a)
Offered(p, vc) == \E k \in 1..Len(Offers(p)) : Offers(p)[k] = vc
Intersection(p) == p.a.carrier \cap p.vc.carrier
Joined(p) == p.a.carrier \cup p.vc.carrier

\* C16 as stated: for every examined pair with disjoint carriers a Full with
\* the union of the carriers is offered when the intermediate endpoint is the
\* player's, and a Semi keyed on the intermediate endpoint when it is empty.
DisjointPairOffered ==
    \A p \in AndPairs :
        Intersection(p) = {} =>
            IF GetColor(brd, p.over) = EMPTY
            THEN Offered(p, VCSemi(p.from, p.to, p.over,
                                   Joined(p) \cup {p.over}, VC_RULE_AND))
            ELSE Offered(p, VCFull(p.from, p.to, Joined(p), VC_RULE_AND))

\* C16, amended: the same for the pairs whose entry a does not hold the other
\* endpoint in its carrier, and then that connection is the only one offered.
DisjointPairOfferedOnce ==
    \A p \in AndPairs :
        (Intersection(p) = {} /\ p.to \notin p.a.carrier) =>
            Offers(p) =
                IF GetColor(brd, p.over) = EMPTY
                THEN <<VCSemi(p.from, p.to, p.over, Joined(p) \cup {p.over},
                              VC_RULE_AND)>>
                ELSE <<VCFull(p.from, p.to, Joined(p), VC_RULE_AND)>>

\* pairs with disjoint carriers are examined through an empty cell and
\* through a group of the player
DisjointPairsExamined ==
    /\ \E p \in AndPairs : /\ Intersection(p) = {}
                           /\ p.to \notin p.a.carrier
                           /\ GetColor(brd, p.over) = EMPTY
    /\ \E p \in AndPairs : /\ Intersection(p) = {}
                           /\ p.to \notin p.a.carrier
                           /\ GetColor(brd, p.over) = m_color
                           /\ Joined(p) /= {}

\* The pair DoAnd's loop body was applied to under SpecAnd, and what it
\* offered; the body goes on with a pair only if a is processed and does not
\* hold the other endpoint.
Applied == pc = "offered"
Examined(p) == p.a.processed /\ p.to \notin p.a.carrier
NaturalFull(p) == GetColor(brd, p.over) = m_color
SingletonKeyed(p, vc) == vc.type = SEMI /\ vc.key /= p.over

\* the connection of the natural type with the carrier widened by the
\* captured set
Widened(p) ==
    IF NaturalFull(p)
    THEN VCFull(p.from, p.to, Joined(p) \cup p.capturedSet, VC_RULE_AND)
    ELSE VCSemi(p.from, p.to, p.over,
                Joined(p) \cup p.capturedSet \cup {p.over}, VC_RULE_AND)
Hopeless(p) ==
    /\ ~(Intersection(p) \subseteq p.capturedSet)
    /\ Cardinality(Intersection(p) \ p.capturedSet) /= 1

\* C17: for a pair the AND rule examines whose carriers meet only inside the
\* combined captured set, the connection of the natural type is offered, last,
\* with the union of both carriers and the captured set as carrier; when the
\* carriers meet outside the captured set in no or several cells, nothing is
\* offered.
WidenedPairOffered ==
    (Applied /\ Examined(do_and.pair)) =>
        /\ (Intersection(do_and.pair) /= {}
               /\ Intersection(do_and.pair) \subseteq do_and.pair.capturedSet)
              => /\ do_and.offers /= <<>>
                 /\ do_and.offers[Len(do_and.offers)] = Widened(do_and.pair)
        /\ Hopeless(do_and.pair) => do_and.offers = <<>>

\* a Semi was offered, widened, for carriers meeting in two captured cells
WidenedSemiOffered ==
    /\ Applied
    /\ Examined(do_and.pair)
    /\ ~NaturalFull(do_and.pair)
    /\ Cardinality(Intersection(do_and.pair)) = 2
    /\ Intersection(do_and.pair) \subseteq do_and.pair.capturedSet
    /\ ~(do_and.pair.capturedSet \subseteq Joined(do_and.pair))
    /\ do_and.offers /= <<>>

\* C18 as stated: at most one connection is offered for a pair, and a Semi
\* keyed on a shared cell only when the natural output is a Full and the
\* carriers meet outside the captured set.
AtMostOneOffer ==
    (Applied /\ Examined(do_and.pair)) =>
        /\ Len(do_and.offers) <= 1
        /\ \A k \in 1..Len(do_and.offers) :
              SingletonKeyed(do_and.pair, do_and.offers[k]) =>
                  /\ NaturalFull(do_and.pair)
                  /\ Intersection(do_and.pair) /= {}
                  /\ ~(Intersection(do_and.pair)
                          \subseteq do_and.pair.capturedSet)

\* C18, amended: at most two connections are offered for a pair and at most
\* one of them is of the natural type, which comes last; a Semi keyed on a
\* shared cell is offered only when the natural output is a Full and the
\* carriers meet, its key is a shared cell, and when the carriers share
\* exactly one cell it is offered whether or not that cell is captured.
AtMostTwoOffers ==
    (Applied /\ Examined(do_and.pair)) =>
        /\ Len(do_and.offers) <= 2
        /\ \A k \in 1..Len(do_and.offers) :
              \/ /\ SingletonKeyed(do_and.pair, do_and.offers[k])
                 /\ NaturalFull(do_and.pair)
                 /\ do_and.offers[k].key \in Intersection(do_and.pair)
              \/ /\ ~SingletonKeyed(do_and.pair, do_and.offers[k])
                 /\ k = Len(do_and.offers)
                 /\ do_and.offers[k].type =
                       IF NaturalFull(do_and.pair) THEN FULL ELSE SEMI
        /\ (NaturalFull(do_and.pair)
               /\ Cardinality(Intersection(do_and.pair)) = 1)
              => do_and.offers[1] =
                    VCSemi(do_and.pair.from, do_and.pair.to,
                           Min(Intersection(do_and.pair)),
                           Joined(do_and.pair), VC_RULE_AND)
        /\ ~NaturalFull(do_and.pair) => Len(do_and.offers) <= 1

\* a Semi keyed on the one shared cell and the widened Full were both
\* offered for one pair
SemiAndFullOffered ==
    /\ Applied
    /\ Examined(do_and.pair)
    /\ Len(do_and.offers) = 2
    /\ do_and.offers[1].type = SEMI
    /\ do_and.offers[2].type = FULL

\* The Fulls of the OR rule a step of the search adds to the list of a pair,
\* and the ways to choose Semis of that list for the Full v: a non-empty set
\* of Semis whose carriers, with the captured set of each endpoint their
\* common intersection meets or without it, make up v's carrier.
IntersectionOf(S) == {c \in UNION {w.carrier : w \in S} : \A w \in S : c \in w.carrier}
NewOrFulls(pr) ==
    {v \in Entries(con'[FULL][pr]) :
        v.rule = VC_RULE_OR /\ v.carrier \notin CarriersIn(con[FULL][pr])}
CapturedIfMet(I, p) ==
    {{}} \cup (IF I \cap m_capturedSet[p] /= {} THEN {m_capturedSet[p]} ELSE {})
ChosenFor(pr, v) ==
    {S \in SUBSET Entries(con[SEMI][pr]) :
        /\ S /= {}
        /\ \E cx \in CapturedIfMet(IntersectionOf(S), pr[1]) :
           \E cy \in CapturedIfMet(IntersectionOf(S), pr[2]) :
              v.carrier = UNION {w.carrier : w \in S} \cup cx \cup cy}

Covered(c, pr) ==
    (c[SEMI][pr] /= <<>> /\ IntersectionOf(Entries(c[SEMI][pr])) = {})
        => c[FULL][pr] /= <<>>
ProcessSemisStep ==
    Searching /\ QueueEmpty(fulls_queue) /\ ~QueueEmpty(semis_queue)

BasePairs ==
    {pr \in OwnCaptains \X GetEmpty(brd) : pr[2] \in GroupNbs(brd, pr[1])}

\* C21: when a static build returns, the counters count that build only: as
\* many base attempts as (group, empty neighbour) pairs of the position, and
\* nothing killed, shrunk or upgraded, whatever the builder ran before.
StaticStatsOfThisBuild ==
    Returned("static") =>
        /\ stats.base_attempts = Cardinality(BasePairs)
        /\ stats.killed0 + stats.killed1 = 0
        /\ stats.shrunk0 + stats.shrunk1 + stats.upgraded = 0

\* the step of DoSearch that pops a Full and runs ProcessFulls on it, the
\* captains of that Full's endpoints, and the connections tagged AND the step
\* leaves in the set that were not there before
ProcessFullsStep == Searching /\ ~QueueEmpty(fulls_queue)
FrontEnds ==
    <<m_groups[QueueFront(fulls_queue).x], m_groups[QueueFront(fulls_queue).y]>>
NewAndVCs ==
    UNION {UNION {{v \in Entries(con'[t][pr]) :
                      v.rule = VC_RULE_AND
                      /\ v.carrier \notin CarriersIn(con[t][pr])} :
                  pr \in Pairs(brd)} : t \in {FULL, SEMI}}
ChainedOver(c, endp, i) ==
    endp[i] \notin {c.x, c.y} /\ endp[3 - i] \in {c.x, c.y}
EdgePairs == {p \in AndPairs : isEdge(p.over)}
FrontUnprocessed ==
    \E v \in Unprocessed(con, FULL, Pair(QueueFront(fulls_queue).x,
                                         QueueFront(fulls_queue).y)) :
        v.carrier = QueueFront(fulls_queue).carrier

\* C22: with and_over_edge off, every connection the AND closure of a Full
\* derives is chained over an endpoint of that Full that is not an edge; with
\* and_over_edge on and the Full still unprocessed in its list, an examined
\* pair that meets at an edge with disjoint carriers leaves a Full no larger than the union between the outer ends.
AndOverEdgeOnlyIfSet ==
    [][ProcessFullsStep =>
          /\ ~param.and_over_edge =>
                \A c \in NewAndVCs :
                    \E i \in 1..2 : /\ ~isEdge(FrontEnds[i])
                                    /\ ChainedOver(c, FrontEnds, i)
          /\ (param.and_over_edge /\ FrontUnprocessed) =>
                \A p \in EdgePairs :
                    (Examined(p) /\ Intersection(p) = {}) =>
                        \E v \in Entries(con'[FULL][Pair(p.from, p.to)]) :
                            v.carrier \subseteq Joined(p)]_vars

\* with and_over_edge on, in a first static build of a position whose own
\* stones all belong to the edge groups, a Full between two cells that are not
\* adjacent was chained over an edge
ChainedOverEdge ==
    /\ param.and_over_edge
    /\ hist.builds = 1 /\ hist.kind = "static"
    /\ \A c \in Cells(brd) : GetColor(brd, c) = m_color => isEdge(m_groups[c])
    /\ \E pr \in Pairs(brd) :
          /\ ~isEdge(pr[1]) /\ ~isEdge(pr[2])
          /\ pr[2] \notin GroupNbs(brd, pr[1])
          /\ \E v \in Entries(con[FULL][pr]) :
                v.rule = VC_RULE_AND /\ v.carrier = {}

\* the cells of the 3x3 board the properties name
b1 == Cell(3, 1, 0)
b2 == Cell(3, 1, 1)
b3 == Cell(3, 1, 2)

\* C23: on the 3x3 board with Black on a2, b2 and c2, the static build for
\* Black leaves a Full between N and S, and with
\* abort_on_winning_connection the search returns with the step that first
\* puts that Full in the set.
SecondRowWins ==
    [][/\ (brd = SecondRow /\ pc' = "done") => Exists(con', NORTH, SOUTH, FULL)
       /\ (brd = SecondRow /\ Abort /\ Searching /\ ~WinningFull
              /\ Exists(con', NORTH, SOUTH, FULL))
            => (pc' = "done" /\ winning_connection')]_vars

\* the build of that position has returned on the winning Full with work
\* left in the queues
SecondRowAborted ==
    /\ brd = SecondRow /\ Abort /\ Returned("static")
    /\ WinningFull /\ winning_connection /\ ~QueuesEmpty

HasEmptyFull(x, y) == {} \in CarriersIn(con[FULL][Pair(x, y)])

\* C24: on the empty 3x3 board, from the start of the static build for Black
\* on, N has a Full with empty carrier to every cell of the top row and S to
\* every cell of the bottom row, and there is never a Full between N and S.
EmptyBoardEdgeFulls ==
    (brd = EmptyBoard /\ hist.kind = "static") =>
        /\ \A c \in 0..2 : /\ HasEmptyFull(NORTH, Cell(3, c, 0))
                           /\ HasEmptyFull(SOUTH, Cell(3, c, 2))
        /\ ~Exists(con, NORTH, SOUTH, FULL)

\* the static build of the empty board has returned, with Semis between N
\* and S
EmptyBoardBuilt ==
    /\ brd = EmptyBoard /\ Returned("static")
    /\ Exists(con, NORTH, SOUTH, SEMI)

\* the position of SecondColumnEnds after Black b2, built incrementally
AfterCentre ==
    /\ Returned("incremental")
    /\ hist.prebrd = SecondColumnEnds
    /\ GetColor(brd, b2) = BLACK
KeyedOn(list, key) == {v \in Entries(list) : v.key = key}
NoFullHolds(cell) ==
    \A pr \in Pairs(brd) : \A v \in Entries(con[FULL][pr]) : cell \notin v.carrier

\* C25 as stated: after Black b2 and the incremental build, the Semis keyed
\* b2 between b1 and b3 (between their groups N and S before the move) have
\* become a Full with empty carrier, and no Full holds b2.
CentreSemiUpgraded ==
    AfterCentre =>
        /\ HasEmptyFull(b1, b3) \/ HasEmptyFull(NORTH, SOUTH)
        /\ NoFullHolds(b2)

\* C25, amended: b1 and b3 are then in one group with both edges, the lists
\* between N and S are left as the static build made them, with the Semi
\* keyed b2 and no Full, and no Full holds b2.
CentreSemiLeft ==
    AfterCentre =>
        /\ m_groups[b1] = m_groups[b3]
        /\ con[SEMI][<<NORTH, SOUTH>>] = hist.pre[SEMI][<<NORTH, SOUTH>>]
        /\ KeyedOn(con[SEMI][<<NORTH, SOUTH>>], b2) /= {}
        /\ con[FULL][<<NORTH, SOUTH>>] = <<>>
        /\ con[FULL][<<b1, b3>>] = <<>>
        /\ NoFullHolds(b2)

\* the incremental build after Black b2 has returned, having upgraded Semis
\* keyed b2 between other endpoints
CentrePlayed == AfterCentre /\ stats.upgraded > 0

\* C26: when a static build returns, every group of the player's or of no
\* colour has a Full with empty carrier to each of its empty neighbours, and
\* the two are in each other's nbs.
BaseFullsAfterStatic ==
    Returned("static") =>
        \A pr \in BasePairs :
            /\ HasEmptyFull(pr[1], pr[2])
            /\ pr[2] \in m_nbs[pr[1]]
            /\ pr[1] \in m_nbs[pr[2]]

\* a static build has returned after an incremental one, for a position with
\* an empty cell next to a group of the player but not to its captain
StaticAfterIncremental ==
    /\ Returned("static") /\ hist.prev = "incremental"
    /\ \E pr \in BasePairs : /\ GetColor(brd, pr[1]) = m_color
                              /\ pr[2] \notin Nbs(brd.w, brd.h, pr[1])

\* the pair ProcessSemis is called with next, its Semi list, and whether all
\* the Semis of the list share a cell outside the captured sets of the pair
FrontPair == Pair(QueueFront(semis_queue)[1], QueueFront(semis_queue)[2])
FrontSemis == con[SEMI][FrontPair]
FrontBlocked ==
    \E c \in Cells(brd) \ (m_capturedSet[FrontPair[1]]
                           \cup m_capturedSet[FrontPair[2]]) :
        \A v \in Entries(FrontSemis) : c \in v.carrier

\* C27: a call of ProcessSemis on a pair whose Semis share a cell outside the
\* captured sets of the pair changes nothing: the set, the neighbour table,
\* the fulls queue, the log and the counters stay as they are, and the semis
\* queue only loses the pair that was popped for the call.
BlockedSemisUntouched ==
    [][(ProcessSemisStep /\ FrontBlocked) =>
          /\ con' = con
          /\ m_nbs' = m_nbs
          /\ fulls_queue' = fulls_queue
          /\ semis_queue' = SemiEndsQueuePop(semis_queue)
          /\ m_log' = m_log
          /\ stats' = stats]_vars

\* ProcessSemis is called on a list with an unprocessed Semi whose Semis
\* share a cell outside the captured sets
BlockedSemisCalled ==
    /\ ProcessSemisStep /\ FrontBlocked
    /\ Unprocessed(con, SEMI, FrontPair) /= {}

\* the Fulls tagged All of a list, by carrier, and the union ProcessSemis
\* takes of the Semi list it was called with
AllCarriers(list) == {v.carrier : v \in {w \in Entries(list) : w.rule = VC_RULE_ALL}}
FrontUnion ==
    IF param.use_greedy_union
    THEN GetGreedyUnion(FrontSemis, Cells(brd) \cup {INVALID_POINT})
    ELSE GetUnion(FrontSemis)
OrLeftNoFull ==
    /\ con[FULL][FrontPair] = <<>>
    /\ \A v \in Entries(con'[FULL][FrontPair]) : v.rule /= VC_RULE_OR
BoundedSemisStep == ProcessSemisStep /\ param.max_ors < 16 /\ ~FrontBlocked
AllFullOf(carrier) ==
    /\ \E v \in Entries(con'[FULL][FrontPair]) :
          /\ Entries(con'[FULL][FrontPair]) = {v}
          /\ v.rule = VC_RULE_ALL
          /\ v.carrier = carrier
    /\ \E k \in 1..Len(Pending(fulls_queue')) :
          /\ Pending(fulls_queue')[k].rule = VC_RULE_ALL
          /\ Pending(fulls_queue')[k].carrier = carrier
          /\ Pair(Pending(fulls_queue')[k].x, Pending(fulls_queue')[k].y)
                = FrontPair

\* C28 as stated: in bounded mode, a call of ProcessSemis that passes the
\* intersection test and whose OR pass leaves the pair without a Full adds
\* exactly one Full tagged All with the union of the Semi list's carriers and
\* pushes it on the fulls queue; otherwise it adds no Full tagged All.
AllFullIsUnion ==
    [][BoundedSemisStep =>
          IF OrLeftNoFull
          THEN AllFullOf(FrontUnion)
          ELSE AllCarriers(con'[FULL][FrontPair])
                  \subseteq AllCarriers(con[FULL][FrontPair])]_vars

\* C28, amended: the carrier is that union together with the captured sets
\* of both endpoints.
AllFullIsUnionAndCaptured ==
    [][BoundedSemisStep =>
          IF OrLeftNoFull
          THEN AllFullOf(FrontUnion \cup m_capturedSet[FrontPair[1]]
                                    \cup m_capturedSet[FrontPair[2]])
          ELSE AllCarriers(con'[FULL][FrontPair])
                  \subseteq AllCarriers(con[FULL][FrontPair])]_vars

\* a Full tagged All that holds a captured set of its endpoints is in the set
\* and waits in the fulls queue, in bounded mode
AllFullWithCaptured ==
    /\ Searching /\ param.max_ors < 16
    /\ \E pr \in Pairs(brd) : \E v \in Entries(con[FULL][pr]) :
          /\ v.rule = VC_RULE_ALL
          /\ m_capturedSet[pr[1]] \cup m_capturedSet[pr[2]] /= {}
          /\ m_capturedSet[pr[1]] \cup m_capturedSet[pr[2]] \subseteq v.carrier
          /\ \E k \in 1..Len(Pending(fulls_queue)) :
                /\ Pending(fulls_queue)[k].carrier = v.carrier
                /\ Pending(fulls_queue)[k].rule = VC_RULE_ALL

\* The call of the bounded OR rule under SpecOr: the list it was given, the
\* seed, the processed Semis by their place in the list, and the Fulls it
\* added.
OrCalled == pc = "ored"
OrPair == CHOOSE p \in Pairs(brd) : con[SEMI][p] /= <<>>
OrList == con[SEMI][OrPair]
OrSeed == CHOOSE v \in Entries(OrList) : ~v.processed
OrProcessed == {i \in 1..Len(OrList) : OrList[i].processed}
Emitted == {do_and.offers[k] : k \in 1..Len(do_and.offers)}
\* the running intersection before the Semi at place i of the subset S, taken
\* in the order of the list, and after the whole of S
RunningBefore(S, i) ==
    IntersectionOf({OrSeed} \cup {OrList[j] : j \in {k \in S : k < i}})
RunningAfter(S) == IntersectionOf({OrSeed} \cup {OrList[j] : j \in S})
EveryOneShrinks(S) ==
    \A i \in S : RunningBefore(S, i) \cap OrList[i].carrier /= RunningBefore(S, i)
EmittedFrom(v, S) ==
    \E cx \in CapturedIfMet(RunningAfter(S), OrPair[1]) :
    \E cy \in CapturedIfMet(RunningAfter(S), OrPair[2]) :
        v.carrier = OrSeed.carrier \cup UNION {OrList[j].carrier : j \in S}
                    \cup cx \cup cy
SubsetsUpTo(n) == {S \in SUBSET OrProcessed : Cardinality(S) \in 1..n}

\* C29 as stated: every Full one call of the bounded rule adds is the union
\* of the seed with at least 1 and at most max_ors - 1 processed Semis of the
\* list (with a captured set of an endpoint the intersection meets), each of
\* which shrinks the running intersection.
OrSubsetWithinMaxOrs ==
    OrCalled =>
        \A v \in Emitted :
            \E S \in SubsetsUpTo(param.max_ors - 1) :
                EmittedFrom(v, S) /\ EveryOneShrinks(S)

\* What the rule does: the same for max_ors >= 2; with max_ors = 1 it still
\* joins the seed with one processed Semi, as with max_ors = 2.
OrSubsetWithinDepth ==
    OrCalled =>
        \A v \in Emitted :
            \E S \in SubsetsUpTo(IF param.max_ors = 1 THEN 1
                                 ELSE param.max_ors - 1) :
                EmittedFrom(v, S) /\ EveryOneShrinks(S)

\* a call with max_ors = 3 has added a Full from the seed and two processed
\* Semis that no single processed Semi gives
OrOfThree ==
    /\ OrCalled /\ param.max_ors = MaxOrsTried
    /\ \E v \in Emitted :
          /\ \E S \in SubsetsUpTo(2) : Cardinality(S) = 2 /\ EmittedFrom(v, S)
          /\ \A S \in SubsetsUpTo(1) : ~EmittedFrom(v, S)

\* C30: with max_ors >= 16 neither assertion of VCOrCombiner::Add fails: the
\* selection loop ends inside its range and the list takes the Full; every
\* call of Add counts two attempts and one success.
EnhancedAddSucceeds ==
    param.max_ors >= 16 =>
        /\ "Add: i < count" \notin asserts
        /\ "Enhanced OR should always succeed!" \notin asserts
        /\ stats.or_attempts = 2 * stats.or_successes

----------------------------------------------------------------------------
(* The AND closure's choice of partners *)

\* c is one of the connections the loop body of DoAnd offers for the pair p
SameConnection(c, v) ==
    /\ c.type = v.type /\ Pair(c.x, c.y) = Pair(v.x, v.y)
    /\ c.carrier = v.carrier /\ c.rule = v.rule
    /\ (c.type = SEMI => c.key = v.key)
DerivedFrom(c, p) ==
    \E k \in 1..Len(Offers(p)) : SameConnection(c, Offers(p)[k])
\* the entries the closure must leave alone: unprocessed, or past the soft
\* limit of their list
PastSoftLimit(pr) ==
    {con[FULL][pr][k] : k \in (param.softlimit + 1)..Len(con[FULL][pr])}
LeftAlone(pr) == Unprocessed(con, FULL, pr) \cup PastSoftLimit(pr)

\* C31: every connection the AND closure of the Full vc at the front of the
\* queue leaves in the set is offered by DoAnd's loop body for vc and an entry
\* a of the Fulls between z and an endpoint p of vc, where z is a recorded
\* neighbour of p outside vc's endpoints and carrier, and a was processed,
\* inside the soft prefix of its list and without the other endpoint in its
\* carrier when the closure began.
AndPartnersProcessedInPrefix ==
    [][ProcessFullsStep =>
          \A c \in NewAndVCs :
              \E p \in AndPairs :
                  /\ Examined(p)
                  /\ p.a \notin LeftAlone(Pair(p.from, p.over))
                  /\ p.from \in m_nbs[p.over]
                  /\ p.from \notin {p.over, p.to} \cup p.vc.carrier
                  /\ DerivedFrom(c, p)]_vars

\* the closure has derived connections, a list holds a processed Full past
\* its soft limit and another a processed and an unprocessed Full
AndPartnersLeftAlone ==
    /\ Searching
    /\ stats.and_full_successes + stats.and_semi_successes > 0
    /\ \E pr \in Pairs(brd) : \E v \in PastSoftLimit(pr) : v.processed
    /\ \E pr \in Pairs(brd) :
          /\ Unprocessed(con, FULL, pr) /= {}
          /\ \E v \in Entries(con[FULL][pr]) : v.processed

----------------------------------------------------------------------------
(* Queueing of added connections *)

\* a step of a build: the seeding of a static or an incremental build, which
\* clears both queues, or an iteration of the search
BuildSeeds == pc /= "search" /\ pc' = "search"
\* the connections of the list (t, pr) a step leaves that were not there
\* before it; a static build clears the set first
NewIn(t, pr) ==
    {v \in Entries(con'[t][pr]) :
        (BuildSeeds /\ hist'.kind = "static")
        \/ v.carrier \notin CarriersIn(con[t][pr])}
\* what the step pushed on a queue
Pushed(q, qn) ==
    IF BuildSeeds THEN {qn.array[k] : k \in 1..Len(qn.array)}
    ELSE {qn.array[k] : k \in (Len(q.array) + 1)..Len(qn.array)}
FullPushed(v) ==
    \E u \in Pushed(fulls_queue, fulls_queue') :
        /\ u.carrier = v.carrier
        /\ {m_groups'[u.x], m_groups'[u.y]} = {m_groups'[v.x], m_groups'[v.y]}
NbsBothWays(v) ==
    /\ m_groups'[v.y] \in m_nbs'[m_groups'[v.x]]
    /\ m_groups'[v.x] \in m_nbs'[m_groups'[v.y]]
SemiFromAndOrMerge(v) ==
    v.rule = VC_RULE_AND \/ (BuildSeeds /\ hist'.kind = "incremental")

\* C32: every Full a step of a build adds to the set is pushed on the fulls
\* queue by that step and leaves the captains of its endpoints in each
\* other's nbs, and every Semi the AND rule or the merge adds has its pair
\* pushed on the semis queue by that step.
AddedConnectionsQueued ==
    [][(BuildSeeds \/ Searching) =>
          \A pr \in Pairs(brd') :
              /\ \A v \in NewIn(FULL, pr) : FullPushed(v) /\ NbsBothWays(v)
              /\ \A v \in NewIn(SEMI, pr) :
                    SemiFromAndOrMerge(v) =>
                        pr \in Pushed(semis_queue, semis_queue')]_vars

\* the parts of it that hold: the Fulls are pushed, the Semis' pairs are
\* pushed, and nbs holds both directions for the Fulls added by the seeding
\* of a static build and by the search
AddedFullsQueued ==
    [][(BuildSeeds \/ Searching) =>
          \A pr \in Pairs(brd') : \A v \in NewIn(FULL, pr) : FullPushed(v)]_vars
AddedFullsInNbsButMerge ==
    [][((BuildSeeds /\ hist'.kind = "static") \/ Searching) =>
          \A pr \in Pairs(brd') : \A v \in NewIn(FULL, pr) : NbsBothWays(v)]_vars
AddedSemisQueued ==
    [][(BuildSeeds \/ Searching) =>
          \A pr \in Pairs(brd') :
              \A v \in NewIn(SEMI, pr) :
                    SemiFromAndOrMerge(v) =>
                        pr \in Pushed(semis_queue, semis_queue')]_vars

----------------------------------------------------------------------------
(* Semis dominated by Fulls *)

\* the Semis of the pair whose carrier holds the whole carrier of a Full of
\* the pair
DominatedSemis(pr) ==
    {v \in Entries(con[SEMI][pr]) :
        \E f \in Entries(con[FULL][pr]) : f.carrier \subseteq v.carrier}

\* C33: between the steps of a static build and after it, no pair has a Semi
\* whose carrier contains or equals the carrier of a Full of the pair.
NoSemiAboveFull ==
    (hist.kind = "static" /\ pc \in {"search", "done"}) =>
        \A pr \in Pairs(brd) : DominatedSemis(pr) = {}

\* the same for the builders without captured-set patterns, where it holds
NoSemiAboveFullUncaptured ==
    (hist.kind = "static" /\ pc \in {"search", "done"} /\ lib.cap = <<>>) =>
        \A pr \in Pairs(brd) : DominatedSemis(pr) = {}

----------------------------------------------------------------------------
(* The kill step of the incremental build *)

\* the stones the opponent plays in the step that seeds an incremental build
KillSet ==
    {p \in Cells(brd) : GetColor(brd, p) = EMPTY
                        /\ GetColor(brd', p) = OtherColor(m_color)}
\* the lists RemoveAllContaining removes a connection from: between two old
\* captains whose groups are not the opponent's afterwards
KilledLists ==
    {pr \in CaptainPairs :
        /\ GetColor(brd', m_groups'[pr[1]]) /= OtherColor(m_color)
        /\ GetColor(brd', m_groups'[pr[2]]) /= OtherColor(m_color)
        /\ \E t \in BothTypes : \E v \in Entries(con[t][pr]) :
              v.carrier \cap KillSet /= {}}
Queued(pr) ==
    \E k \in 1..Len(semis_queue'.array) :
        semis_queue'.array[k] \in {pr, Pair(m_groups'[pr[1]], m_groups'[pr[2]])}

\* C34: when an incremental build calls DoSearch, every list the kill step
\* removed a connection from is in the work queue, under its own pair or the
\* pair of its endpoints' new captains.
KilledListsQueued ==
    [][(BuildSeeds /\ hist'.kind = "incremental") =>
          \A pr \in KilledLists : Queued(pr)]_vars

----------------------------------------------------------------------------
(* One call of the merge of a list pair (SpecMerge) *)

MergeCalled == pc = "merged"
MergeAdded == do_and.pair.added
\* the Semis the call removed from the list it read, by what is done to them
ToShrink == {do_and.offers[i] : i \in {j \in 1..Len(do_and.offers) :
                                          do_and.offers[j].key \notin MergeAdded}}
ToUpgrade == {do_and.offers[i] : i \in {j \in 1..Len(do_and.offers) :
                                           do_and.offers[j].key \in MergeAdded}}
MergeOut == Pair(m_groups[do_and.pair.xin], Cell(3, 2, 0))
\* the records of the log of the call: the additions of Semis, all of shrunk
\* Semis, and the additions of Fulls after the Semis were removed, all of
\* upgraded Semis
LogOf(kind, type) ==
    {k \in 1..Len(m_log.recs) : /\ m_log.recs[k].kind = kind
                                /\ m_log.recs[k].vc.type = type}
ShrinkAdds == LogOf(ADD, SEMI)
UpgradeAdds == {k \in LogOf(ADD, FULL) : \E j \in LogOf(REMOVE, SEMI) : j < k}
AddedAs(k, r) ==
    /\ m_log.recs[k].vc.carrier = r.carrier \ MergeAdded
    /\ Pair(m_log.recs[k].vc.x, m_log.recs[k].vc.y) = MergeOut

\* C35: after one call of the merge of a list pair, every addition of a Semi
\* is the shrinking of a removed Semi whose key is not in added and every
\* addition of a Full the upgrade of one whose key is in added, each removed
\* Semi accounts for at most one addition of its kind and is covered by a
\* connection of its kind, the shrinks come before the upgrades, no
\* Semi of the list written contains the carrier of an accepted upgrade, and
\* upgraded counts the accepted upgrades.
ShrinkThenUpgradeOnce ==
    MergeCalled =>
        /\ \A k \in ShrinkAdds :
              \E r \in ToShrink : /\ AddedAs(k, r)
                                  /\ m_log.recs[k].vc.key = r.key
        /\ \A k \in UpgradeAdds : \E r \in ToUpgrade : AddedAs(k, r)
        /\ \A r \in ToShrink :
              Cardinality({k \in ShrinkAdds : AddedAs(k, r)}) <= 1
        /\ \A r \in ToUpgrade :
              Cardinality({k \in UpgradeAdds : AddedAs(k, r)}) <= 1
        /\ \A r \in ToShrink :
              \E k \in ShrinkAdds :
                  m_log.recs[k].vc.carrier \subseteq r.carrier \ MergeAdded
        /\ \A r \in ToUpgrade :
              \E f \in Entries(con[FULL][MergeOut]) :
                  f.carrier \subseteq r.carrier \ MergeAdded
        /\ \A i \in ShrinkAdds : \A j \in UpgradeAdds : i < j
        /\ \A j \in UpgradeAdds : \A v \in Entries(con[SEMI][MergeOut]) :
              ~(m_log.recs[j].vc.carrier \subseteq v.carrier)
        /\ stats.upgraded = Cardinality(UpgradeAdds)
        /\ stats.shrunk1 = Cardinality(ShrinkAdds)

\* a call that shrank Semis, upgraded others, refused an upgrade and removed
\* a shrunk Semi again for an upgraded Full
ShrunkAndUpgraded ==
    /\ MergeCalled
    /\ ShrinkAdds /= {} /\ UpgradeAdds /= {}
    /\ Cardinality(UpgradeAdds) < Cardinality(ToUpgrade)
    /\ \E j \in UpgradeAdds : \E k \in LogOf(REMOVE, SEMI) :
          j < k /\ m_log.recs[k].vc.carrier \in
                      {m_log.recs[i].vc.carrier : i \in ShrinkAdds}

----------------------------------------------------------------------------
(* What the merge keeps *)

\* the step that seeds an incremental build, the stones the player plays in
\* it, and the pair of the new captains of a pair of old ones
MergeStep == BuildSeeds /\ hist'.kind = "incremental"
OwnSet ==
    {p \in Cells(brd) : GetColor(brd, p) = EMPTY /\ GetColor(brd', p) = m_color}
NewPair(pr) == Pair(m_groups'[pr[1]], m_groups'[pr[2]])
Survivors(t, pr) == {v \in Entries(con[t][pr]) : v.carrier \cap KillSet = {}}
KeptBelow(pr, v) ==
    \E t \in BothTypes : \E u \in Entries(con'[t][NewPair(pr)]) :
        u.carrier \subseteq v.carrier \ OwnSet
\* a list the merge skips gets no new entry but the Fulls of patterns
Skipped(pr) ==
    \A t \in BothTypes : \A v \in Entries(con'[t][pr]) :
        v \in Entries(con[t][pr]) \/ (t = FULL /\ v.rule = VC_RULE_BASE)

\* C36 as stated: for every connection between two old captains of the
\* player's or of no colour whose carrier the opponent's new stones do not
\* meet, if the new captains of its endpoints differ, their Full or Semi list
\* holds afterwards a connection whose carrier lies inside its carrier less
\* the player's new stones; if they are equal nothing is written.
MergeLosesNothing ==
    [][MergeStep =>
          \A pr \in CaptainPairs :
              IF m_groups'[pr[1]] /= m_groups'[pr[2]]
              THEN \A t \in BothTypes : \A v \in Survivors(t, pr) :
                      KeptBelow(pr, v)
              ELSE Skipped(pr)]_vars

\* C36, amended: the same for the pairs of old captains the opponent did not
\* play on; the lists of the others are left as they are.
MergeLosesNothingOfOwnPairs ==
    [][MergeStep =>
          \A pr \in CaptainPairs :
              IF pr[1] \in KillSet \/ pr[2] \in KillSet
              THEN \A t \in BothTypes : con'[t][pr] = con[t][pr]
              ELSE IF m_groups'[pr[1]] /= m_groups'[pr[2]]
              THEN \A t \in BothTypes : \A v \in Survivors(t, pr) :
                      KeptBelow(pr, v)
              ELSE Skipped(pr)]_vars

\* the search of an incremental build starts after a merge that moved a
\* connection touching the player's new stone to the pair of new captains,
\* and skipped a pair whose endpoints are in one group now
MergedAcrossCaptains ==
    LET old == Captains(hist.prebrd, {m_color, EMPTY})
        Touching(pr) ==
            \E t \in BothTypes : \E v \in Entries(hist.pre[t][pr]) :
                /\ v.carrier \cap AddedStones(OtherColor(m_color)) = {}
                /\ v.carrier \cap AddedStones(m_color) /= {}
    IN /\ Searching /\ hist.kind = "incremental"
       /\ fulls_queue.head = 0 /\ semis_queue.head = 0
       /\ \E pr \in Pairs(brd) :
             /\ pr[1] \in old /\ pr[2] \in old
             /\ m_groups[pr[1]] /= m_groups[pr[2]]
             /\ Pair(m_groups[pr[1]], m_groups[pr[2]]) /= pr
             /\ Touching(pr)
       /\ \E pr \in Pairs(brd) :
             /\ pr[1] \in old /\ pr[2] \in old
             /\ m_groups[pr[1]] = m_groups[pr[2]]
             /\ Touching(pr)

----------------------------------------------------------------------------
(* ProcessFulls runs the closure once *)

FrontList ==
    con[FULL][Pair(QueueFront(fulls_queue).x, QueueFront(fulls_queue).y)]
FrontGone == QueueFront(fulls_queue).carrier \notin CarriersIn(FrontList)
FrontProcessed ==
    \E v \in Entries(FrontList) :
        v.carrier = QueueFront(fulls_queue).carrier /\ v.processed
\* the records the log holds of Fulls marked processed
ProcessedRecs(log) ==
    {k \in 1..Len(log.recs) : /\ log.recs[k].kind = PROCESSED
                              /\ log.recs[k].vc.type = FULL}
SameFull(u, v) == u.x = v.x /\ u.y = v.y /\ u.carrier = v.carrier

\* C39: a step of the search that pops a Full which is no longer in its list,
\* or is processed there, changes nothing but the head of the fulls queue; a
\* step that pops an unprocessed Full of its list leaves it processed; a
\* processed Full stays processed while it is in its list, a Full that leaves
\* its list leaves a Full with a smaller carrier there, and the log of a build
\* never holds two records of the same Full being processed.
ClosureAtMostOnce ==
    [][Searching =>
          /\ (~QueueEmpty(fulls_queue) /\ ~FrontUnprocessed) =>
                /\ con' = con /\ m_log' = m_log /\ stats' = stats
                /\ m_nbs' = m_nbs /\ semis_queue' = semis_queue
                /\ fulls_queue' = FullVCQueuePop(fulls_queue)
          /\ (~QueueEmpty(fulls_queue) /\ FrontUnprocessed) =>
                \E v \in Entries(con'[FULL][Pair(QueueFront(fulls_queue).x,
                                                 QueueFront(fulls_queue).y)]) :
                    /\ v.carrier = QueueFront(fulls_queue).carrier
                    /\ v.processed
          /\ \A pr \in Pairs(brd) : \A v \in Entries(con[FULL][pr]) :
                \E u \in Entries(con'[FULL][pr]) :
                    /\ u.carrier \subseteq v.carrier
                    /\ (u.carrier = v.carrier /\ v.processed) => u.processed
          /\ \A j, k \in ProcessedRecs(m_log') :
                j /= k => ~SameFull(m_log'.recs[j].vc, m_log'.recs[k].vc)]_vars

\* the Fulls the search has popped so far
Popped == {fulls_queue.array[k] : k \in 1..fulls_queue.head}
\* the search has just popped a Full that had left its list, after popping a
\* Full whose closure derived connections, and one Full has been popped twice
PoppedGoneAndTwice ==
    /\ Searching /\ fulls_queue.head > 1
    /\ stats.and_full_successes + stats.and_semi_successes > 0
    /\ fulls_queue.array[fulls_queue.head].carrier \notin
          CarriersIn(con[FULL][Pair(fulls_queue.array[fulls_queue.head].x,
                                    fulls_queue.array[fulls_queue.head].y)])
    /\ \E j, k \in 1..fulls_queue.head :
          j < k /\ SameFull(fulls_queue.array[j], fulls_queue.array[k])

----------------------------------------------------------------------------
(* Closure under the AND rule at the fixed point *)

\* the Fulls inside the soft prefix of the list between x and y
SoftFulls(x, y) == Entries(Prefix(con[FULL][Pair(x, y)], param.softlimit))
\* the midpoints the AND rule chains over
AndMidpoints ==
    {p \in Cells(brd) : /\ GetColor(brd, p) \in {m_color, EMPTY}
                        /\ param.and_over_edge \/ ~isEdge(p)}
\* the Fulls a between z and p and b between p and y the AND rule combines
Combinable(z, p, y, a, b) ==
    /\ a \in SoftFulls(z, p) /\ b \in SoftFulls(p, y)
    /\ a.carrier \cap b.carrier = {}
    /\ y \notin a.carrier /\ z \notin b.carrier
\* the carrier of the AND of a and b over p and the type of the result
AndCarrier(p, a, b) ==
    a.carrier \cup b.carrier \cup
        (IF GetColor(brd, p) = EMPTY THEN {p} ELSE {})
AndType(p) == IF GetColor(brd, p) = EMPTY THEN SEMI ELSE FULL
AndCovered(z, p, y, a, b) ==
    \E u \in Entries(con[AndType(p)][Pair(z, y)])
             \cup Entries(con[FULL][Pair(z, y)]) :
        u.carrier \subseteq AndCarrier(p, a, b)

\* C40: when a build returns without abort_on_winning_connection, for every
\* two Fulls a between z and p and b between p and y inside the soft prefixes
\* of their lists, with z /= y, disjoint carriers, y outside a's carrier, z
\* outside b's carrier and p own-coloured or empty and not an edge unless
\* and_over_edge, the list between z and y of the resulting type or the Full
\* list between z and y holds a carrier inside the carrier of their AND.
ClosedUnderAndAtReturn ==
    (pc = "done" /\ ~Abort) =>
        \A p \in AndMidpoints : \A z, y \in Cells(brd) \ {p} :
            z /= y =>
                \A a \in SoftFulls(z, p) : \A b \in SoftFulls(p, y) :
                    Combinable(z, p, y, a, b) => AndCovered(z, p, y, a, b)

\* the part of C40 that holds: the closure at the return of a static build,
\* over the captains of own or empty colour
StaticClosedUnderAndOnCaptains ==
    (Returned("static") /\ ~Abort) =>
        \A p \in AndMidpoints \cap OwnCaptains :
            \A z, y \in OwnCaptains \ {p} :
                z /= y =>
                    \A a \in SoftFulls(z, p) : \A b \in SoftFulls(p, y) :
                        Combinable(z, p, y, a, b) =>
                            AndCovered(z, p, y, a, b)

----------------------------------------------------------------------------
(* handbook-add (SpecHandbook) *)

HandbookReturned == pc \in {"appended", "failed"}
\* the colour on turn at the k-th node after the root
OnTurn(k) == IF k % 2 = 1 THEN FIRST_TO_PLAY ELSE OtherColor(FIRST_TO_PLAY)
\* what makes the command fail at the k-th node
Defect(k) ==
    LET node == do_and.nodes[k]
    IN \/ node.setup
       \/ node.hasMove /\ node.player /= OnTurn(k)
       \/ ~node.hasMove /\ k < Len(do_and.nodes)
GameDefective ==
    do_and.root.setup \/ \E k \in 1..Len(do_and.nodes) : Defect(k)
\* the nodes the loop can reach
Visited ==
    1..(IF do_and.maxMove < Len(do_and.nodes)
        THEN do_and.maxMove ELSE Len(do_and.nodes))
\* the position before the move of the k-th node
BoardBefore(k) ==
    [brd EXCEPT !.col =
        [p \in DOMAIN @ |->
            IF \E j \in 1..(k - 1) : do_and.nodes[j].move = p
            THEN do_and.nodes[CHOOSE j \in 1..(k - 1) :
                                  do_and.nodes[j].move = p].player
            ELSE @[p]]]
\* the entries of the moves number 1 to maxMove - 1 of the requested colour,
\* in game order; the k-th node holds move number k - 1
ExpectedEntries ==
    LET ks == SelectSeq([k \in 1..Len(do_and.nodes) |-> k],
                        LAMBDA k : /\ k \in Visited /\ k > 1
                                   /\ do_and.nodes[k].hasMove
                                   /\ do_and.nodes[k].player
                                          = do_and.colorToSave)
    IN [i \in 1..Len(ks) |->
           <<Hash(BoardBefore(ks[i])), do_and.nodes[ks[i]].move>>]

\* C37: handbook-add appends to the handbook one entry (position hash before
\* the move, move) for each move number i with 1 <= i < maxMove played by the
\* requested colour, in game order, none for move 0 and duplicates included;
\* if the game has setup information, a move by the colour not on turn or a
\* move-less node that is not the last node, it fails and appends nothing.
HandbookAddAppendsOrFails ==
    HandbookReturned =>
        /\ GameDefective => (pc = "failed" /\ do_and.out = do_and.book)
        /\ pc = "appended" => do_and.out = do_and.book \o ExpectedEntries

\* C37, as the code has it: the command fails exactly when the root has
\* setup information, the sizes differ, or one of the first maxMove nodes has
\* setup information, a move by the colour not on turn or no move without
\* being the last node; then nothing is appended, and otherwise the entries
\* of the moves number 1 to maxMove - 1 of the requested colour are.
HandbookAddFailsOnVisitedNodes ==
    HandbookReturned =>
        /\ pc = "failed" <=>
              \/ do_and.root.setup
              \/ do_and.root.size /= brd.w \/ do_and.root.size /= brd.h
              \/ \E k \in Visited : Defect(k)
        /\ pc = "failed" => do_and.out = do_and.book
        /\ pc = "appended" => do_and.out = do_and.book \o ExpectedEntries

\* the command has appended an entry the handbook already held, for a game
\* with a node past the first maxMove that would have made it fail
AppendedDuplicateBeforeDefect ==
    /\ pc = "appended"
    /\ GameDefective
    /\ Len(do_and.out) > Len(do_and.book)
    /\ \E i, j \in 1..Len(do_and.out) : i < j /\ do_and.out[i] = do_and.out[j]

----------------------------------------------------------------------------
(* BookUtil::BestMove (SpecBook) *)

\* the caller's state is not in the book or its count is below minCount
BelowMinCount ==
    \/ ~BookGet(do_and.book, do_and.state)
    \/ do_and.book[StateHash(do_and.state)].m_count < do_and.minCount
\* the empty cells of the caller's state whose successor is in the book
BookSuccessors ==
    {p \in GetEmpty(do_and.state.brd) :
        BookGet(do_and.book, HexStatePlayMove(do_and.state, p))}

\* C38: BestMove returns INVALID_POINT when the state is not in the book or
\* its count is below minCount; otherwise its assertion holds and it returns
\* an empty cell whose successor state is in the book; the caller's state is
\* not modified, and the copy the loop plays on is the caller's state again
\* at the return.
BestMoveIsBookSuccessor ==
    [][BestMoveCall =>
          /\ BelowMinCount => do_and'.out.move = INVALID_POINT
          /\ ~BelowMinCount =>
                /\ asserts' = {}
                /\ do_and'.out.move \in BookSuccessors
          /\ do_and'.state = do_and.state
          /\ do_and'.out.state = do_and.state]_vars

\* the part of C38 that holds: the same, for the states with a successor in
\* the book
BestMoveOfInnerNode ==
    [][(BestMoveCall /\ BookSuccessors /= {}) =>
          /\ BelowMinCount => do_and'.out.move = INVALID_POINT
          /\ ~BelowMinCount =>
                /\ asserts' = {}
                /\ do_and'.out.move \in BookSuccessors
          /\ do_and'.state = do_and.state
          /\ do_and'.out.state = do_and.state]_vars

====
